---- MODULE Spec2Model ----
(***************************************************************************)
(* Loan processing backend: the session-driven conversation workflow of    *)
(* app/api.py together with the sanctions screener of                      *)
(* app/services/ofac_service.py and the user lookup of                     *)
(* app/services/excel_service.py.                                          *)
(*                                                                         *)
(* Names are sequences of one-character strings so that normalisation is   *)
(* computed the way the code computes it.  A Python dict is a function     *)
(* whose domain is its set of keys.                                        *)
(***************************************************************************)
EXTENDS Integers, Sequences, FiniteSets, TLC

VARIABLES
    user_sessions,   \* api.user_sessions: user_id -> session dict
    users_file,      \* the users and loans sheets: user id -> record
    check_cache,     \* OFACService.check_cache: normalized name -> entry
    ofac_api,        \* TRUE iff settings.ofac_api_url and ofac_api_key are set
    settings,        \* config.settings: the loan calculation parameters
    now,             \* time.time(), in seconds since start
    request,         \* the request handled by the last step
    response,        \* what the last request returned or raised
    rate_limiter,    \* the RateLimitMiddleware: requests and last_cleanup
    conversations,   \* LLMService.conversations: user_id -> ConversationContext
    history          \* the events so far that a property counts, in order

vars ==
    <<user_sessions, users_file, check_cache, ofac_api, settings, now, request, response,
      rate_limiter, conversations, history>>

(***************************************************************************)
(* Bounds of the model.                                                    *)
(***************************************************************************)
MaxTicks == 2
MaxLLMRetries == 3
MaxRateTicks == 3
MaxMessagesAdded == 5
\* ConversationContext.max_messages, 10 by default
max_messages == 3
RateTickSeconds == 30
\* settings.rate_limit_requests, 100 by default
rate_limit_requests == 1
TickSeconds == 1800

(***************************************************************************)
(* Program constants.                                                      *)
(***************************************************************************)
cache_ttl == 3600
cache_clean_threshold == 1000
max_loan_amount == 10000000
rate_limit_window == 60
cleanup_interval == 60

\* the defaults of Settings; the environment may set other values
DefaultSettings == [loan_multiplier |-> 5, loan_term_years |-> 12]
loan_multiplier == settings.loan_multiplier
loan_term_years == settings.loan_term_years

(***************************************************************************)
(* Characters and names.                                                   *)
(***************************************************************************)
UpperCase == <<"A", "B", "C", "D", "E", "F", "G", "H", "I", "J", "K", "L", "M",
               "N", "O", "P", "Q", "R", "S", "T", "U", "V", "W", "X", "Y", "Z">>
LowerCase == <<"a", "b", "c", "d", "e", "f", "g", "h", "i", "j", "k", "l", "m",
               "n", "o", "p", "q", "r", "s", "t", "u", "v", "w", "x", "y", "z">>
Whitespace == {" ", "\t"}

Stephanie_Martin == <<"S", "t", "e", "p", "h", "a", "n", "i", "e", " ", "M", "a", "r", "t", "i", "n">>
Sanctioned_Person == <<"S", "a", "n", "c", "t", "i", "o", "n", "e", "d", " ", "P", "e", "r", "s", "o", "n">>
John_Terrorist == <<"J", "o", "h", "n", " ", "T", "e", "r", "r", "o", "r", "i", "s", "t">>
Jane_Criminal == <<"J", "a", "n", "e", " ", "C", "r", "i", "m", "i", "n", "a", "l">>
Bad_Actor == <<"B", "a", "d", " ", "A", "c", "t", "o", "r">>
Money_Launderer == <<"M", "o", "n", "e", "y", " ", "L", "a", "u", "n", "d", "e", "r", "e", "r">>
John_Doe == <<"J", "o", "h", "n", " ", "D", "o", "e">>

sanctioned_names ==
    {Stephanie_Martin, Sanctioned_Person, John_Terrorist, Jane_Criminal,
     Bad_Actor, Money_Launderer}

(***************************************************************************)
(* str.lower, str.strip, str.replace('  ', ' ') and str.split.             *)
(***************************************************************************)
LowerChar(c) ==
    IF \E i \in 1..Len(UpperCase) : UpperCase[i] = c
    THEN LowerCase[CHOOSE i \in 1..Len(UpperCase) : UpperCase[i] = c]
    ELSE c

Lower(s) == [i \in 1..Len(s) |-> LowerChar(s[i])]

RECURSIVE LStrip(_)
LStrip(s) ==
    IF s # <<>> /\ Head(s) \in Whitespace THEN LStrip(Tail(s)) ELSE s

RECURSIVE RStrip(_)
RStrip(s) ==
    IF s # <<>> /\ s[Len(s)] \in Whitespace
    THEN RStrip(SubSeq(s, 1, Len(s) - 1))
    ELSE s

Strip(s) == RStrip(LStrip(s))

\* one left-to-right pass over non-overlapping occurrences of two spaces
RECURSIVE ReplaceDoubleSpace(_)
ReplaceDoubleSpace(s) ==
    IF Len(s) < 2 THEN s
    ELSE IF s[1] = " " /\ s[2] = " "
         THEN <<" ">> \o ReplaceDoubleSpace(SubSeq(s, 3, Len(s)))
         ELSE <<s[1]>> \o ReplaceDoubleSpace(Tail(s))

\* the set of whitespace-delimited words of s
RECURSIVE SplitWords(_, _)
SplitWords(s, word) ==
    IF s = <<>> THEN (IF word = <<>> THEN {} ELSE {word})
    ELSE IF Head(s) \in Whitespace
         THEN (IF word = <<>> THEN {} ELSE {word}) \cup SplitWords(Tail(s), <<>>)
         ELSE SplitWords(Tail(s), Append(word, Head(s)))

_normalize_name(name) == ReplaceDoubleSpace(Lower(Strip(name)))

(***************************************************************************)
(* ExcelService.get_user_data over the users and loans sheets.             *)
(***************************************************************************)
\* One row of the users sheet joined with the sum of the user's rows in the
\* loans sheet.
UserRecord(name, income, expenses, existing_loan) ==
    [Name |-> name, MonthlyIncome |-> income,
     MonthlyExpenses |-> expenses, ExistingLoan |-> existing_loan]

\* the sample sheet written by _initialize_files, and the same sheet with a
\* sanctioned name in the applicant's row
UsersFiles ==
    {[USR001 |-> UserRecord(John_Doe, 8000, 3000, 20000)],
     [USR001 |-> UserRecord(Jane_Criminal, 8000, 3000, 20000)]}

UserIds == {"USR001", "USR002", ""}

LookupRaised == [raised |-> TRUE]
LookupNone == [raised |-> FALSE, found |-> FALSE]

\* an empty user id raises ValidationException, an unknown one returns None
get_user_data(file, user_id) ==
    IF user_id = "" THEN LookupRaised
    ELSE IF user_id \notin DOMAIN file THEN LookupNone
    ELSE [raised |-> FALSE, found |-> TRUE, data |-> file[user_id]]

(***************************************************************************)
(* OFACService: sanctions screening with a result cache.                   *)
(***************************************************************************)
Status(text) == [text |-> text, name |-> <<>>]
StatusNamed(text, name) == [text |-> text, name |-> name]

Verdict(result, status) == [raised |-> FALSE, result |-> result, status |-> status]
CheckRaised == [raised |-> TRUE]

ErrorStatus == Status("OFAC check failed - manual review required")

\* what the remote sanctions API can answer; scores are in hundredths
ApiFaults == {"none", "timeout", "request_exception", "malformed"}
ApiResponses ==
    [fault : {"none"}, status_code : {200}, matches : {TRUE}, highest_score : {60, 61, 80, 81}]
    \cup [fault : {"none"}, status_code : {200, 429, 503}, matches : {FALSE}, highest_score : {0}]
    \cup [fault : ApiFaults \ {"none"}, status_code : {0}, matches : {FALSE}, highest_score : {0}]

RandomChecks == {"above_95", "above_90", "below"}

\* faulty variant: an entry never expires
_is_cache_valid_NeverExpires(cache_entry, t) == t - cache_entry.timestamp >= 0

_is_cache_valid(cache_entry, t) == t - cache_entry.timestamp < cache_ttl

\* None is modelled as the empty set, a hit as a singleton
_get_cached_result(cache, normalized_name, t) ==
    IF normalized_name \in DOMAIN cache /\ _is_cache_valid(cache[normalized_name], t)
    THEN {Verdict(cache[normalized_name].result, cache[normalized_name].status)}
    ELSE {}

_cache_result(cache, normalized_name, result, status, t) ==
    [k \in DOMAIN cache \cup {normalized_name} |->
        IF k = normalized_name
        THEN [result |-> result, status |-> status, timestamp |-> t]
        ELSE cache[k]]

_clean_cache(cache, t) ==
    [k \in {n \in DOMAIN cache : ~(t - cache[n].timestamp > cache_ttl)} |-> cache[k]]

\* faulty variant: a medium-confidence match is cleared
_check_real_ofac_api_MediumClears(resp) ==
    IF resp.fault = "timeout"
    THEN Verdict(FALSE, Status("OFAC check timeout - manual review required"))
    ELSE IF resp.fault = "request_exception"
    THEN Verdict(FALSE, Status("OFAC check failed - manual review required"))
    ELSE IF resp.fault = "malformed"
    THEN CheckRaised
    ELSE IF resp.status_code = 200
    THEN IF resp.matches
         THEN IF resp.highest_score > 80
              THEN Verdict(FALSE, Status("High confidence match found on sanctions list"))
              ELSE Verdict(TRUE, Status("Low confidence matches - cleared"))
         ELSE Verdict(TRUE, Status("No matches found - OFAC check passed"))
    ELSE IF resp.status_code = 429
    THEN Verdict(FALSE, Status("OFAC check rate limited - manual review required"))
    ELSE Verdict(FALSE, Status("OFAC API error - manual review required"))

_check_real_ofac_api(resp) ==
    IF resp.fault = "timeout"
    THEN Verdict(FALSE, Status("OFAC check timeout - manual review required"))
    ELSE IF resp.fault = "request_exception"
    THEN Verdict(FALSE, Status("OFAC check failed - manual review required"))
    ELSE IF resp.fault = "malformed"
    THEN CheckRaised
    ELSE IF resp.status_code = 200
    THEN IF resp.matches
         THEN IF resp.highest_score > 80
              THEN Verdict(FALSE, Status("High confidence match found on sanctions list"))
              ELSE IF resp.highest_score > 60
              THEN Verdict(FALSE, Status("Potential match found - manual review required"))
              ELSE Verdict(TRUE, Status("Low confidence matches - cleared"))
         ELSE Verdict(TRUE, Status("No matches found - OFAC check passed"))
    ELSE IF resp.status_code = 429
    THEN Verdict(FALSE, Status("OFAC check rate limited - manual review required"))
    ELSE Verdict(FALSE, Status("OFAC API error - manual review required"))

\* self._normalize_name(sanctioned_name) and its words, per list entry
NormalizedSanctioned == [sn \in sanctioned_names |-> _normalize_name(sn)]
SanctionedWords == [sn \in sanctioned_names |-> SplitWords(NormalizedSanctioned[sn], <<>>)]

ExactMatches(normalized_name) ==
    {sn \in sanctioned_names : normalized_name = NormalizedSanctioned[sn]}

PartialMatches(normalized_name) ==
    LET user_words == SplitWords(normalized_name, <<>>) IN
    {sn \in sanctioned_names :
        Cardinality(user_words \cap SanctionedWords[sn]) >= 2}

\* the verdicts of the simulation for one draw of random.random(); the
\* iteration order of the sanctioned_names set decides which matching entry
\* the status cites
_simulate_ofac_check(user_name, random_check) ==
    LET normalized_name == _normalize_name(user_name) IN
    IF ExactMatches(normalized_name) # {}
    THEN {Verdict(FALSE, StatusNamed("Exact match found on sanctions list", sn)) :
            sn \in ExactMatches(normalized_name)}
    ELSE IF PartialMatches(normalized_name) # {}
    THEN {Verdict(FALSE, StatusNamed("Potential partial match found - manual review required", sn)) :
            sn \in PartialMatches(normalized_name)}
    ELSE IF random_check = "above_95"
    THEN {Verdict(FALSE, Status("Random compliance check triggered - manual review required"))}
    ELSE IF random_check = "above_90"
    THEN {Verdict(FALSE, Status("Potential match found in extended database - manual review required"))}
    ELSE {Verdict(TRUE, Status("OFAC sanctions check passed - no matches found"))}

\* every verdict a fresh check can produce, over all answers of the remote
\* API (when configured) or all draws of random.random() (otherwise)
FreshChecks(user_name, api) ==
    IF api THEN {_check_real_ofac_api(resp) : resp \in ApiResponses}
    ELSE UNION {_simulate_ofac_check(user_name, random_check) :
                    random_check \in RandomChecks}

\* faulty variant: a fresh check that raises lets the name pass
check_sanctions_with_FailOpen(user_name, cache, fresh, t) ==
    IF Strip(user_name) = <<>>
    THEN {[result |-> FALSE, status |-> ErrorStatus, cache |-> cache]}
    ELSE
    LET normalized_name == _normalize_name(user_name)
        cached_result == _get_cached_result(cache, normalized_name, t)
    IN  IF cached_result # {}
        THEN {[result |-> v.result, status |-> v.status, cache |-> cache] :
                v \in cached_result}
        ELSE {IF v.raised
              THEN [result |-> TRUE, status |-> ErrorStatus, cache |-> cache]
              ELSE [result |-> v.result, status |-> v.status,
                    cache |-> _cache_result(cache, normalized_name, v.result, v.status, t)] :
                v \in fresh}

\* the set of [result, status, cache] outcomes of one check_sanctions call
\* whose fresh check, when it runs, gives one of the verdicts of fresh
\* faulty variant: serving a cached verdict stores it again with the time
\* of the serve
check_sanctions_with_RefreshesOnHit(user_name, cache, fresh, t) ==
    IF Strip(user_name) = <<>>
    THEN {[result |-> FALSE, status |-> ErrorStatus, cache |-> cache]}
    ELSE
    LET normalized_name == _normalize_name(user_name)
        cached_result == _get_cached_result(cache, normalized_name, t)
        cleaned == IF Cardinality(DOMAIN cache) > cache_clean_threshold
                   THEN _clean_cache(cache, t) ELSE cache
    IN  IF cached_result # {}
        THEN {[result |-> v.result, status |-> v.status,
               cache |-> _cache_result(cache, normalized_name, v.result, v.status, t)] :
                v \in cached_result}
        ELSE {IF v.raised
              THEN [result |-> FALSE, status |-> ErrorStatus, cache |-> cleaned]
              ELSE [result |-> v.result, status |-> v.status,
                    cache |-> _cache_result(cleaned, normalized_name, v.result, v.status, t)] :
                v \in fresh}

check_sanctions_with(user_name, cache, fresh, t) ==
    IF Strip(user_name) = <<>>
    THEN {[result |-> FALSE, status |-> ErrorStatus, cache |-> cache]}
    ELSE
    LET normalized_name == _normalize_name(user_name)
        cached_result == _get_cached_result(cache, normalized_name, t)
        cleaned == IF Cardinality(DOMAIN cache) > cache_clean_threshold
                   THEN _clean_cache(cache, t) ELSE cache
    IN  IF cached_result # {}
        THEN {[result |-> v.result, status |-> v.status, cache |-> cache] :
                v \in cached_result}
        ELSE {IF v.raised
              THEN [result |-> FALSE, status |-> ErrorStatus, cache |-> cleaned]
              ELSE [result |-> v.result, status |-> v.status,
                    cache |-> _cache_result(cleaned, normalized_name, v.result, v.status, t)] :
                v \in fresh}

check_sanctions(user_name, cache, api, t) ==
    check_sanctions_with(user_name, cache, FreshChecks(user_name, api), t)

(***************************************************************************)
(* Messages and responses.                                                 *)
(***************************************************************************)
Text(kind) == [kind |-> kind, name |-> <<>>]

\* the f-string of api.fetch_user_data, which embeds the applicant's name
ComplianceDeclineMessage(name) == [kind |-> "compliance_decline", name |-> name]

ApprovalMessage == Text("in_principal_approval")
DefaultHaltMessage == Text("Process cannot continue.")

\* LLMService.generate_response always returns a string; the text is opaque
generate_response(prompt) == [kind |-> "llm:" \o prompt, name |-> <<>>]

NoBody == [type |-> "none"]

Ok(body) ==
    [status |-> 200, raised |-> "", error_code |-> "", detail |-> "", body |-> body]

Raised(exception, status, error_code, detail) ==
    [status |-> status, raised |-> exception, error_code |-> error_code,
     detail |-> detail, body |-> NoBody]

\* exceptions as rendered by the handlers of app/exceptions.py
UserNotFound == Raised("UserNotFoundException", 404, "USER_NOT_FOUND", "User not found")
SessionNotFoundHTTP == Raised("HTTPException", 400, "HTTP_400", "Session not found")
SessionNotFound == Raised("SessionNotFoundException", 404, "SESSION_NOT_FOUND", "Session not found")
InternalError(detail) == Raised("HTTPException", 500, "HTTP_500", detail)
\* api.py never imports ValidationException: naming it raises NameError
UnboundName == Raised("NameError", 500, "INTERNAL_SERVER_ERROR", "ValidationException")

LLMResponse(message, next_step) ==
    [type |-> "LLMResponse", message |-> message, next_step |-> next_step]

(***************************************************************************)
(* Session dictionaries.                                                   *)
(***************************************************************************)
EmptyDict == [k \in {} |-> 0]

Get(dict, key, default) == IF key \in DOMAIN dict THEN dict[key] ELSE default

\* dict.update / {**old, ...new}: keys of new win
Update(old, new) == new @@ old

Put(sessions, user_id, session) ==
    [u \in DOMAIN sessions \cup {user_id} |->
        IF u = user_id THEN session ELSE sessions[u]]

Del(sessions, user_id) == [u \in DOMAIN sessions \ {user_id} |-> sessions[u]]

\* RateLimitMiddleware.__init__, at time 0: no client has a deque yet
NewRateLimitMiddleware == [requests |-> EmptyDict, last_cleanup |-> 0]

process_complete(session) == Get(session, "process_complete", FALSE)

\* faulty variant: reads a key no handler ever writes
llm_message_WrongKey(session) == Get(session, "message", DefaultHaltMessage)

llm_message(session) == Get(session, "llm_message", DefaultHaltMessage)

(***************************************************************************)
(* The handlers of app/api.py.  Each returns the session store and the     *)
(* response that the call leaves behind.                                   *)
(***************************************************************************)
Outcome(sessions, resp) == [sessions |-> sessions, response |-> resp]

\* faulty variant: user_sessions[user_id].update(...) on an existing session
\* instead of assigning a fresh dict
greet_user_UpdatesInPlace(sessions, file, user_id, t) ==
    LET user_data == get_user_data(file, user_id) IN
    IF user_data.raised
    THEN Outcome(sessions, InternalError("Failed to process greeting request"))
    ELSE IF ~user_data.found
    THEN Outcome(sessions, UserNotFound)
    ELSE
    LET context == [name |-> user_data.data.Name, step |-> "greeting",
                    timestamp |-> t, user_id |-> user_id]
        fresh == [step |-> "loan_type_selection", context |-> context,
                  created_at |-> t]
    IN  Outcome(Put(sessions, user_id,
                    IF user_id \in DOMAIN sessions
                    THEN Update(sessions[user_id], fresh) ELSE fresh),
                Ok(LLMResponse(generate_response("greet"), "select_loan_type")))

greet_user(sessions, file, user_id, t) ==
    LET user_data == get_user_data(file, user_id) IN
    IF user_data.raised
    THEN Outcome(sessions, InternalError("Failed to process greeting request"))
    ELSE IF ~user_data.found
    THEN Outcome(sessions, UserNotFound)
    ELSE
    LET context == [name |-> user_data.data.Name, step |-> "greeting",
                    timestamp |-> t, user_id |-> user_id]
        message == generate_response("greet")
    IN  Outcome(Put(sessions, user_id,
                    [step |-> "loan_type_selection", context |-> context,
                     created_at |-> t]),
                Ok(LLMResponse(message, "select_loan_type")))

UserData(user_id, user_data, ofac_clear, ofac_status) ==
    [type |-> "UserData", user_id |-> user_id, name |-> user_data.Name,
     monthly_income |-> user_data.MonthlyIncome,
     monthly_expenses |-> user_data.MonthlyExpenses,
     existing_loan |-> user_data.ExistingLoan,
     ofac_check |-> ofac_clear, ofac_status |-> ofac_status]

\* faulty variant: process_complete is set on both branches
FetchOutcome_AlwaysComplete(sessions, user_id, loan_type, user_data, check, t) ==
    LET context == [name |-> user_data.Name,
                    monthly_income |-> user_data.MonthlyIncome,
                    monthly_expenses |-> user_data.MonthlyExpenses,
                    existing_loan |-> user_data.ExistingLoan,
                    loan_type |-> loan_type,
                    ofac_status |-> check.status,
                    ofac_clear |-> check.result,
                    step |-> "data_verification",
                    timestamp |-> t,
                    user_id |-> user_id]
        message == IF ~check.result
                   THEN ComplianceDeclineMessage(user_data.Name)
                   ELSE generate_response("confirm_loan_type")
        session == [step |-> IF ~check.result THEN "ofac_failed" ELSE "data_confirmation",
                    loan_type |-> loan_type,
                    user_data |-> user_data,
                    context |-> context,
                    llm_message |-> message,
                    process_complete |-> TRUE,
                    created_at |-> t]
    IN  [sessions |-> Put(sessions, user_id, session),
         cache |-> check.cache,
         response |-> Ok(UserData(user_id, user_data, check.result, check.status))]

\* faulty variant: the branch condition is ofac_clear instead of not ofac_clear
FetchOutcome_InvertedBranch(sessions, user_id, loan_type, user_data, check, t) ==
    LET context == [name |-> user_data.Name,
                    monthly_income |-> user_data.MonthlyIncome,
                    monthly_expenses |-> user_data.MonthlyExpenses,
                    existing_loan |-> user_data.ExistingLoan,
                    loan_type |-> loan_type,
                    ofac_status |-> check.status,
                    ofac_clear |-> check.result,
                    step |-> "data_verification",
                    timestamp |-> t,
                    user_id |-> user_id]
        message == IF check.result
                   THEN ComplianceDeclineMessage(user_data.Name)
                   ELSE generate_response("confirm_loan_type")
        session == [step |-> IF check.result THEN "ofac_failed" ELSE "data_confirmation",
                    loan_type |-> loan_type,
                    user_data |-> user_data,
                    context |-> context,
                    llm_message |-> message,
                    process_complete |-> check.result,
                    created_at |-> t]
    IN  [sessions |-> Put(sessions, user_id, session),
         cache |-> check.cache,
         response |-> Ok(UserData(user_id, user_data, check.result, check.status))]

\* one outcome of fetch_user_data for one outcome of the sanctions check
FetchOutcome(sessions, user_id, loan_type, user_data, check, t) ==
    LET context == [name |-> user_data.Name,
                    monthly_income |-> user_data.MonthlyIncome,
                    monthly_expenses |-> user_data.MonthlyExpenses,
                    existing_loan |-> user_data.ExistingLoan,
                    loan_type |-> loan_type,
                    ofac_status |-> check.status,
                    ofac_clear |-> check.result,
                    step |-> "data_verification",
                    timestamp |-> t,
                    user_id |-> user_id]
        message == IF ~check.result
                   THEN ComplianceDeclineMessage(user_data.Name)
                   ELSE generate_response("confirm_loan_type")
        session == [step |-> IF ~check.result THEN "ofac_failed" ELSE "data_confirmation",
                    loan_type |-> loan_type,
                    user_data |-> user_data,
                    context |-> context,
                    llm_message |-> message,
                    process_complete |-> ~check.result,
                    created_at |-> t]
    IN  [sessions |-> Put(sessions, user_id, session),
         cache |-> check.cache,
         response |-> Ok(UserData(user_id, user_data, check.result, check.status))]

\* the set of outcomes of one call
fetch_user_data(sessions, file, cache, api, user_id, loan_type, t) ==
    LET user_data == get_user_data(file, user_id) IN
    IF user_data.raised
    THEN {[sessions |-> sessions, cache |-> cache,
           response |-> InternalError("Failed to fetch user data or perform OFAC check")]}
    ELSE IF ~user_data.found
    THEN {[sessions |-> sessions, cache |-> cache, response |-> UserNotFound]}
    ELSE {FetchOutcome(sessions, user_id, loan_type, user_data.data, check, t) :
            check \in check_sanctions(user_data.data.Name, cache, api, t)}

\* faulty variant: the session step is set back to the first step
confirm_user_data_StepReset(sessions, user_id, t) ==
    IF user_id \notin DOMAIN sessions
    THEN Outcome(sessions, SessionNotFoundHTTP)
    ELSE
    LET session == sessions[user_id] IN
    IF process_complete(session)
    THEN Outcome(sessions, Ok(LLMResponse(llm_message(session), "complete")))
    ELSE
    LET context == Update(Get(session, "context", EmptyDict),
                          [step |-> "data_confirmation", timestamp |-> t])
    IN  Outcome(Put(sessions, user_id,
                    Update(session, [step |-> "loan_type_selection", context |-> context])),
                Ok(LLMResponse(generate_response("confirm_data"), "enter_loan_amount")))

\* faulty variant: the context counts the confirmations
confirm_user_data_CountsCalls(sessions, user_id, t) ==
    IF user_id \notin DOMAIN sessions
    THEN Outcome(sessions, SessionNotFoundHTTP)
    ELSE
    LET session == sessions[user_id] IN
    IF process_complete(session)
    THEN Outcome(sessions, Ok(LLMResponse(llm_message(session), "complete")))
    ELSE
    LET old == Get(session, "context", EmptyDict)
        context == Update(old, [step |-> "data_confirmation", timestamp |-> t,
                                confirmations |-> Get(old, "confirmations", 0) + 1])
    IN  Outcome(Put(sessions, user_id,
                    Update(session, [step |-> "loan_amount_input", context |-> context])),
                Ok(LLMResponse(generate_response("confirm_data"), "enter_loan_amount")))

confirm_user_data(sessions, user_id, t) ==
    IF user_id \notin DOMAIN sessions
    THEN Outcome(sessions, SessionNotFoundHTTP)
    ELSE
    LET session == sessions[user_id] IN
    IF process_complete(session)
    THEN Outcome(sessions, Ok(LLMResponse(llm_message(session), "complete")))
    ELSE
    LET context == Update(Get(session, "context", EmptyDict),
                          [step |-> "data_confirmation", timestamp |-> t])
        message == generate_response("confirm_data")
    IN  Outcome(Put(sessions, user_id,
                    Update(session, [step |-> "loan_amount_input", context |-> context])),
                Ok(LLMResponse(message, "enter_loan_amount")))

\* faulty variant: the context is built afresh instead of extended
ask_loan_amount_FreshContext(sessions, user_id, t) ==
    IF user_id \notin DOMAIN sessions
    THEN Outcome(sessions, SessionNotFoundHTTP)
    ELSE
    LET session == sessions[user_id] IN
    IF process_complete(session)
    THEN Outcome(sessions, Ok(LLMResponse(llm_message(session), "complete")))
    ELSE
    LET context == [step |-> "loan_amount_input", timestamp |-> t]
    IN  Outcome(Put(sessions, user_id, Update(session, [context |-> context])),
                Ok(LLMResponse(generate_response("ask_loan_amount"), "calculate_eligibility")))

\* faulty variant: the loan type is reset when the amount is asked for
ask_loan_amount_ResetsLoanType(sessions, user_id, t) ==
    IF user_id \notin DOMAIN sessions
    THEN Outcome(sessions, SessionNotFoundHTTP)
    ELSE
    LET session == sessions[user_id] IN
    IF process_complete(session)
    THEN Outcome(sessions, Ok(LLMResponse(llm_message(session), "complete")))
    ELSE
    LET context == Update(Get(session, "context", EmptyDict),
                          [step |-> "loan_amount_input", timestamp |-> t])
    IN  Outcome(Put(sessions, user_id,
                    Update(session, [context |-> context, loan_type |-> ""])),
                Ok(LLMResponse(generate_response("ask_loan_amount"), "calculate_eligibility")))

ask_loan_amount(sessions, user_id, t) ==
    IF user_id \notin DOMAIN sessions
    THEN Outcome(sessions, SessionNotFoundHTTP)
    ELSE
    LET session == sessions[user_id] IN
    IF process_complete(session)
    THEN Outcome(sessions, Ok(LLMResponse(llm_message(session), "complete")))
    ELSE
    LET context == Update(Get(session, "context", EmptyDict),
                          [step |-> "loan_amount_input", timestamp |-> t])
        message == generate_response("ask_loan_amount")
    IN  Outcome(Put(sessions, user_id, Update(session, [context |-> context])),
                Ok(LLMResponse(message, "calculate_eligibility")))

LoanEligibility(total, eligible, requested, is_eligible, message) ==
    [type |-> "LoanEligibility", total_loan_eligibility |-> total,
     eligible_loan_amount |-> eligible, requested_amount |-> requested,
     is_eligible |-> is_eligible, message |-> message]

Max(a, b) == IF a >= b THEN a ELSE b

\* faulty variants of calculate_eligibility, one per named fault
calculate_eligibility_Faulty(sessions, user_id, loan_amount, t, fault) ==
    IF user_id \notin DOMAIN sessions
    THEN Outcome(sessions, UnboundName)
    ELSE
    LET session == sessions[user_id] IN
    IF /\ fault = "validates_first"
       /\ (loan_amount <= 0 \/ loan_amount > max_loan_amount)
    THEN Outcome(sessions, UnboundName)
    ELSE IF process_complete(session)
    THEN Outcome(sessions, Ok(LoanEligibility(0, 0, 0, FALSE, llm_message(session))))
    ELSE IF loan_amount <= 0 \/ loan_amount > max_loan_amount
    THEN Outcome(sessions, UnboundName)
    ELSE IF "user_data" \notin DOMAIN session
    THEN Outcome(sessions, UnboundName)
    ELSE
    LET user_data == session.user_data
        disposable_income == user_data.MonthlyIncome - user_data.MonthlyExpenses
        total_loan_eligibility == disposable_income * loan_term_years * loan_multiplier
        eligible_loan_amount ==
            CASE fault = "no_floor" -> total_loan_eligibility - user_data.ExistingLoan
              [] fault = "loan_not_subtracted" -> Max(0, total_loan_eligibility)
              [] OTHER -> Max(0, total_loan_eligibility - user_data.ExistingLoan)
        is_eligible == /\ fault = "verdict_ignores_amount"
                          \/ loan_amount <= eligible_loan_amount
                       /\ eligible_loan_amount > 0
                       /\ disposable_income > 0
        first == fault = "keeps_first_amount" /\ "loan_amount" \in DOMAIN session
        context == Update(Get(session, "context", EmptyDict),
                          [step |-> "eligibility_calculation",
                           requested_amount |-> loan_amount,
                           total_eligibility |-> total_loan_eligibility,
                           eligible_amount |-> eligible_loan_amount,
                           disposable_income |-> disposable_income,
                           is_eligible |-> is_eligible,
                           timestamp |-> t,
                           user_id |-> user_id])
        message == IF is_eligible THEN Text("eligible")
                   ELSE IF eligible_loan_amount <= 0
                   THEN Text("insufficient_disposable_income")
                   ELSE Text("amount_exceeds_limit")
    IN  Outcome(Put(sessions, user_id,
                    Update(session,
                           [loan_amount |-> IF first THEN session.loan_amount
                                            ELSE loan_amount,
                            eligibility |-> IF first THEN session.eligibility
                                            ELSE is_eligible,
                            eligible_amount |-> eligible_loan_amount,
                            total_eligibility |-> total_loan_eligibility,
                            context |-> context,
                            calculation_timestamp |-> t])),
                Ok(LoanEligibility(total_loan_eligibility, eligible_loan_amount,
                                   loan_amount, is_eligible, message)))

\* faulty variant: the verdict does not compare the requested amount
calculate_eligibility_VerdictIgnoresAmount(sessions, user_id, loan_amount, t) ==
    calculate_eligibility_Faulty(sessions, user_id, loan_amount, t, "verdict_ignores_amount")

\* faulty variant: the eligible amount is not floored at zero
calculate_eligibility_NoFloor(sessions, user_id, loan_amount, t) ==
    calculate_eligibility_Faulty(sessions, user_id, loan_amount, t, "no_floor")

\* faulty variant: the existing loan is not subtracted
calculate_eligibility_LoanNotSubtracted(sessions, user_id, loan_amount, t) ==
    calculate_eligibility_Faulty(sessions, user_id, loan_amount, t, "loan_not_subtracted")

\* faulty variant: a second calculation keeps the first amount and verdict
calculate_eligibility_KeepsFirstAmount(sessions, user_id, loan_amount, t) ==
    calculate_eligibility_Faulty(sessions, user_id, loan_amount, t, "keeps_first_amount")

\* faulty variant: the amount is validated before the halt check
calculate_eligibility_ValidatesFirst(sessions, user_id, loan_amount, t) ==
    calculate_eligibility_Faulty(sessions, user_id, loan_amount, t, "validates_first")

\* every exception raised inside the try block reaches the clause
\* "except (SessionNotFoundException, ValidationException)", where the
\* unbound name ValidationException raises NameError in its place
calculate_eligibility(sessions, user_id, loan_amount, t) ==
    IF user_id \notin DOMAIN sessions
    THEN Outcome(sessions, UnboundName)
    ELSE
    LET session == sessions[user_id] IN
    IF process_complete(session)
    THEN Outcome(sessions, Ok(LoanEligibility(0, 0, 0, FALSE, llm_message(session))))
    ELSE IF loan_amount <= 0
    THEN Outcome(sessions, UnboundName)
    ELSE IF loan_amount > max_loan_amount
    THEN Outcome(sessions, UnboundName)
    ELSE IF "user_data" \notin DOMAIN session
    THEN Outcome(sessions, UnboundName)
    ELSE
    LET user_data == session.user_data
        monthly_income == user_data.MonthlyIncome
        monthly_expenses == user_data.MonthlyExpenses
        existing_loan == user_data.ExistingLoan
        disposable_income == monthly_income - monthly_expenses
        annual_disposable_income == disposable_income * loan_term_years
        total_loan_eligibility == annual_disposable_income * loan_multiplier
        eligible_loan_amount == Max(0, total_loan_eligibility - existing_loan)
        is_eligible == /\ loan_amount <= eligible_loan_amount
                       /\ eligible_loan_amount > 0
                       /\ disposable_income > 0
        context == Update(Get(session, "context", EmptyDict),
                          [step |-> "eligibility_calculation",
                           requested_amount |-> loan_amount,
                           total_eligibility |-> total_loan_eligibility,
                           eligible_amount |-> eligible_loan_amount,
                           disposable_income |-> disposable_income,
                           is_eligible |-> is_eligible,
                           timestamp |-> t,
                           user_id |-> user_id])
        message == IF is_eligible THEN Text("eligible")
                   ELSE IF eligible_loan_amount <= 0
                   THEN Text("insufficient_disposable_income")
                   ELSE Text("amount_exceeds_limit")
    IN  Outcome(Put(sessions, user_id,
                    Update(session, [loan_amount |-> loan_amount,
                                     eligibility |-> is_eligible,
                                     eligible_amount |-> eligible_loan_amount,
                                     total_eligibility |-> total_loan_eligibility,
                                     context |-> context,
                                     calculation_timestamp |-> t])),
                Ok(LoanEligibility(total_loan_eligibility, eligible_loan_amount,
                                   loan_amount, is_eligible, message)))

\* faulty variant: the process_complete check is missing
final_confirmation_NoHaltGuard(sessions, user_id, t) ==
    IF user_id \notin DOMAIN sessions
    THEN Outcome(sessions, SessionNotFoundHTTP)
    ELSE
    LET session == sessions[user_id]
        is_eligible == Get(session, "eligibility", FALSE)
        message == IF is_eligible THEN ApprovalMessage
                   ELSE generate_response("denial")
    IN  Outcome(Del(sessions, user_id), Ok(LLMResponse(message, "complete")))

\* faulty variant: a session without a verdict counts as eligible
final_confirmation_ApprovesByDefault(sessions, user_id, t) ==
    IF user_id \notin DOMAIN sessions
    THEN Outcome(sessions, SessionNotFoundHTTP)
    ELSE
    LET session == sessions[user_id] IN
    IF process_complete(session)
    THEN Outcome(sessions, Ok(LLMResponse(llm_message(session), "complete")))
    ELSE
    LET is_eligible == Get(session, "eligibility", TRUE)
        message == IF is_eligible THEN ApprovalMessage
                   ELSE generate_response("denial")
    IN  Outcome(Del(sessions, user_id), Ok(LLMResponse(message, "complete")))

\* faulty variant: the session is not deleted at the end
final_confirmation_KeepsSession(sessions, user_id, t) ==
    IF user_id \notin DOMAIN sessions
    THEN Outcome(sessions, SessionNotFoundHTTP)
    ELSE
    LET session == sessions[user_id] IN
    IF process_complete(session)
    THEN Outcome(sessions, Ok(LLMResponse(llm_message(session), "complete")))
    ELSE
    LET is_eligible == Get(session, "eligibility", FALSE)
        message == IF is_eligible THEN ApprovalMessage
                   ELSE generate_response("denial")
    IN  Outcome(sessions, Ok(LLMResponse(message, "complete")))

\* faulty variant: the confirmation empties the whole session store
final_confirmation_ClearsStore(sessions, user_id, t) ==
    IF user_id \notin DOMAIN sessions
    THEN Outcome(sessions, SessionNotFoundHTTP)
    ELSE
    LET session == sessions[user_id] IN
    IF process_complete(session)
    THEN Outcome(sessions, Ok(LLMResponse(llm_message(session), "complete")))
    ELSE
    LET is_eligible == Get(session, "eligibility", FALSE)
        message == IF is_eligible THEN ApprovalMessage
                   ELSE generate_response("denial")
    IN  Outcome(EmptyDict, Ok(LLMResponse(message, "complete")))

final_confirmation(sessions, user_id, t) ==
    IF user_id \notin DOMAIN sessions
    THEN Outcome(sessions, SessionNotFoundHTTP)
    ELSE
    LET session == sessions[user_id] IN
    IF process_complete(session)
    THEN Outcome(sessions, Ok(LLMResponse(llm_message(session), "complete")))
    ELSE
    LET is_eligible == Get(session, "eligibility", FALSE)
        message == IF is_eligible THEN ApprovalMessage
                   ELSE generate_response("denial")
    IN  Outcome(Del(sessions, user_id), Ok(LLMResponse(message, "complete")))

\* faulty variant: the process_complete check is missing
chat_NoHaltGuard(sessions, user_id, message, t) ==
    IF user_id \notin DOMAIN sessions
    THEN Outcome(sessions, SessionNotFoundHTTP)
    ELSE Outcome(sessions, Ok([type |-> "chat", message |-> generate_response(message)]))

\* faulty variant: the context built for the reply is stored in the session
chat_StoresContext(sessions, user_id, message, t) ==
    IF user_id \notin DOMAIN sessions
    THEN Outcome(sessions, SessionNotFoundHTTP)
    ELSE
    LET session == sessions[user_id] IN
    IF process_complete(session)
    THEN Outcome(sessions, Ok([type |-> "chat", message |-> llm_message(session)]))
    ELSE
    LET context == Update(Get(session, "context", EmptyDict),
                          [step |-> "chat", timestamp |-> t])
    IN  Outcome(Put(sessions, user_id, Update(session, [context |-> context])),
                Ok([type |-> "chat", message |-> generate_response(message)]))

chat(sessions, user_id, message, t) ==
    IF user_id \notin DOMAIN sessions
    THEN Outcome(sessions, SessionNotFoundHTTP)
    ELSE
    LET session == sessions[user_id] IN
    IF process_complete(session)
    THEN Outcome(sessions, Ok([type |-> "chat", message |-> llm_message(session)]))
    ELSE Outcome(sessions, Ok([type |-> "chat", message |-> generate_response(message)]))

(***************************************************************************)
(* Requests and the state machine.                                         *)
(***************************************************************************)
LoanTypes == {"personal", "home"}
LoanAmounts == {0, 250000, 290000, 10000001}
ChatMessages == {"hello"}

Request(op, user_id, loan_type, loan_amount, message) ==
    [op |-> op, user_id |-> user_id, loan_type |-> loan_type,
     loan_amount |-> loan_amount, message |-> message]

NoRequest == Request("none", "", "", 0, "")

Init ==
    /\ user_sessions = EmptyDict
    /\ users_file \in UsersFiles
    /\ check_cache = EmptyDict
    /\ ofac_api = FALSE
    /\ settings = DefaultSettings
    /\ now = 0
    /\ request = NoRequest
    /\ response = Ok(NoBody)
    /\ rate_limiter = NewRateLimitMiddleware
    /\ conversations = EmptyDict
    /\ history = <<>>

\* a handler that touches nothing but the session store
Handle(req, outcome) ==
    /\ user_sessions' = outcome.sessions
    /\ response' = outcome.response
    /\ request' = req
    /\ UNCHANGED <<rate_limiter, conversations, history,
                   users_file, check_cache, ofac_api, settings, now>>

GreetUser ==
    \E user_id \in UserIds :
        Handle(Request("greet_user", user_id, "", 0, ""),
               greet_user(user_sessions, users_file, user_id, now))

FetchUserData ==
    \E user_id \in UserIds, loan_type \in LoanTypes :
        \E outcome \in fetch_user_data(user_sessions, users_file, check_cache, ofac_api,
                                       user_id, loan_type, now) :
            /\ user_sessions' = outcome.sessions
            /\ check_cache' = outcome.cache
            /\ response' = outcome.response
            /\ request' = Request("fetch_user_data", user_id, loan_type, 0, "")
            /\ UNCHANGED <<rate_limiter, conversations, history,
                           users_file, ofac_api, settings, now>>

ConfirmUserData ==
    \E user_id \in UserIds :
        Handle(Request("confirm_user_data", user_id, "", 0, ""),
               confirm_user_data(user_sessions, user_id, now))

AskLoanAmount ==
    \E user_id \in UserIds :
        Handle(Request("ask_loan_amount", user_id, "", 0, ""),
               ask_loan_amount(user_sessions, user_id, now))

\* faulty variant: the record is read again from the sheet at calculation
CalculateEligibility_RereadsRecord ==
    \E user_id \in UserIds, loan_amount \in LoanAmounts :
        LET reread == /\ user_id \in DOMAIN user_sessions
                      /\ "user_data" \in DOMAIN user_sessions[user_id]
                      /\ user_id \in DOMAIN users_file
            sessions == IF reread
                        THEN Put(user_sessions, user_id,
                                 Update(user_sessions[user_id],
                                        [user_data |-> users_file[user_id]]))
                        ELSE user_sessions
        IN  Handle(Request("calculate_eligibility", user_id, "", loan_amount, ""),
                   calculate_eligibility(sessions, user_id, loan_amount, now))

CalculateEligibility ==
    \E user_id \in UserIds, loan_amount \in LoanAmounts :
        Handle(Request("calculate_eligibility", user_id, "", loan_amount, ""),
               calculate_eligibility(user_sessions, user_id, loan_amount, now))

FinalConfirmation ==
    \E user_id \in UserIds :
        Handle(Request("final_confirmation", user_id, "", 0, ""),
               final_confirmation(user_sessions, user_id, now))

Chat ==
    \E user_id \in UserIds, message \in ChatMessages :
        Handle(Request("chat", user_id, "", 0, message),
               chat(user_sessions, user_id, message, now))

\* time passes between requests
Tick ==
    /\ now < MaxTicks * TickSeconds
    /\ now' = now + TickSeconds
    /\ UNCHANGED <<rate_limiter, conversations, history,
                   user_sessions, users_file, check_cache, ofac_api, settings, request, response>>

Next ==
    \/ GreetUser
    \/ FetchUserData
    \/ ConfirmUserData
    \/ AskLoanAmount
    \/ CalculateEligibility
    \/ FinalConfirmation
    \/ Chat
    \/ Tick

Spec == Init /\ [][Next]_vars

(***************************************************************************)
(* The same handlers over user sheets with other incomes and existing      *)
(* loans, and with the sheet rewritten between requests.                   *)
(***************************************************************************)
MonthlyIncomes == {2000, 3000, 8000}
MonthlyExpensesValues == {3000}
ExistingLoans == {20000, 400000}
SettingsChoices == {DefaultSettings, [loan_multiplier |-> 4, loan_term_years |-> 10]}

EligibilityFiles ==
    {[USR001 |-> UserRecord(John_Doe, income, expenses, existing_loan)] :
        income \in MonthlyIncomes, expenses \in MonthlyExpensesValues,
        existing_loan \in ExistingLoans}

\* ExcelService.update_user: the row of user_id takes the given fields
update_user(file, user_id, user_data) ==
    [u \in DOMAIN file |->
        IF u = user_id THEN Update(file[u], user_data) ELSE file[u]]

UpdateUser ==
    \E user_id \in DOMAIN users_file, income \in MonthlyIncomes,
       expenses \in MonthlyExpensesValues :
        /\ users_file' = update_user(users_file, user_id,
                                     [MonthlyIncome |-> income,
                                      MonthlyExpenses |-> expenses])
        /\ users_file' # users_file
        /\ UNCHANGED <<rate_limiter, conversations, history,
                       user_sessions, check_cache, ofac_api, settings, now, request, response>>

InitEligibility ==
    /\ user_sessions = EmptyDict
    /\ users_file \in EligibilityFiles
    /\ check_cache = EmptyDict
    /\ ofac_api = FALSE
    /\ settings \in SettingsChoices
    /\ now = 0
    /\ request = NoRequest
    /\ response = Ok(NoBody)
    /\ rate_limiter = NewRateLimitMiddleware
    /\ conversations = EmptyDict
    /\ history = <<>>

NextEligibility ==
    \/ GreetUser
    \/ FetchUserData
    \/ ConfirmUserData
    \/ AskLoanAmount
    \/ CalculateEligibility
    \/ FinalConfirmation
    \/ Chat
    \/ UpdateUser

SpecEligibility == InitEligibility /\ [][NextEligibility]_vars

(***************************************************************************)
(* The sanctions screener called on its own: OFACService.check_sanctions   *)
(* with names in several spellings, with and without the remote API, and   *)
(* the admin endpoint that clears its cache.                               *)
(***************************************************************************)
John_Doe_ThreeSpaces == <<"J", "o", "h", "n", " ", " ", " ", "D", "o", "e">>
JANE_CRIMINAL_Trailing == <<"J", "A", "N", "E", " ", "C", "R", "I", "M", "I", "N", "A", "L", " ">>
Criminal_Jane == <<"C", "r", "i", "m", "i", "n", "a", "l", " ", "J", "a", "n", "e">>

\* names screened by the simulation, and names sent to the remote API
SimulationNames ==
    {John_Doe, John_Doe_ThreeSpaces, JANE_CRIMINAL_Trailing, Criminal_Jane, <<>>}
ApiNames == {JANE_CRIMINAL_Trailing, Criminal_Jane}

ScreenedNames == IF ofac_api THEN ApiNames ELSE SimulationNames

\* what decides a fresh check: the remote API's answer when the API is
\* configured, the draw of random.random() otherwise
Draws == IF ofac_api THEN ApiResponses ELSE RandomChecks

\* no fresh check runs: the API is not called and nothing is drawn
NoDraw ==
    IF ofac_api
    THEN [fault |-> "not_called", status_code |-> 0, matches |-> FALSE, highest_score |-> 0]
    ELSE "not_drawn"

\* check_sanctions gets as far as the fresh check: the name is not blank
\* and the cache has no valid entry for it
RunsFreshCheck(user_name, cache, t) ==
    /\ Strip(user_name) # <<>>
    /\ _get_cached_result(cache, _normalize_name(user_name), t) = {}

FreshCheck(user_name, api, draw) ==
    IF draw = NoDraw THEN {}
    ELSE IF api THEN {_check_real_ofac_api(draw)}
    ELSE _simulate_ofac_check(user_name, draw)

ScreeningRequest(user_name, draw) ==
    [op |-> "check_sanctions", user_id |-> "", loan_type |-> "", loan_amount |-> 0,
     message |-> "", user_name |-> user_name, draw |-> draw]

ScreeningResult(result, status) ==
    [type |-> "check_sanctions", result |-> result, status |-> status]

CheckSanctions ==
    \E user_name \in ScreenedNames :
    \E draw \in IF RunsFreshCheck(user_name, check_cache, now) THEN Draws ELSE {NoDraw} :
        \E outcome \in check_sanctions_with(user_name, check_cache,
                                            FreshCheck(user_name, ofac_api, draw), now) :
            /\ check_cache' = outcome.cache
            /\ response' = Ok(ScreeningResult(outcome.result, outcome.status))
            /\ request' = ScreeningRequest(user_name, draw)
            /\ UNCHANGED <<rate_limiter, conversations, history,
                           user_sessions, users_file, ofac_api, settings, now>>

\* OFACService.clear_cache, called by POST /admin/clear-cache
clear_cache(cache) == EmptyDict

ClearCaches ==
    /\ check_cache' = clear_cache(check_cache)
    /\ response' = Ok([type |-> "clear_caches"])
    /\ request' = Request("clear_caches", "", "", 0, "")
    /\ UNCHANGED <<rate_limiter, conversations, history,
                   user_sessions, users_file, ofac_api, settings, now>>

InitScreening ==
    /\ user_sessions = EmptyDict
    /\ users_file \in {f \in UsersFiles : f["USR001"].Name = John_Doe}
    /\ check_cache = EmptyDict
    /\ ofac_api \in BOOLEAN
    /\ settings = DefaultSettings
    /\ now = 0
    /\ request = NoRequest
    /\ response = Ok(NoBody)
    /\ rate_limiter = NewRateLimitMiddleware
    /\ conversations = EmptyDict
    /\ history = <<>>

NextScreening ==
    \/ CheckSanctions
    \/ ClearCaches
    \/ Tick

SpecScreening == InitScreening /\ [][NextScreening]_vars

(***************************************************************************)
(* Two applicants of the sample sheet going through the workflow at the    *)
(* same time, their requests interleaved in every order.                   *)
(***************************************************************************)
Jane_Smith == <<"J", "a", "n", "e", " ", "S", "m", "i", "t", "h">>

ApplicantsFile ==
    [USR001 |-> UserRecord(John_Doe, 8000, 3000, 20000),
     USR002 |-> UserRecord(Jane_Smith, 12000, 4000, 50000)]

InitApplicants ==
    /\ user_sessions = EmptyDict
    /\ users_file = ApplicantsFile
    /\ check_cache = EmptyDict
    /\ ofac_api = FALSE
    /\ settings = DefaultSettings
    /\ now = 0
    /\ request = NoRequest
    /\ response = Ok(NoBody)
    /\ rate_limiter = NewRateLimitMiddleware
    /\ conversations = EmptyDict
    /\ history = <<>>

NextApplicants ==
    \/ GreetUser
    \/ FetchUserData
    \/ ConfirmUserData
    \/ AskLoanAmount
    \/ CalculateEligibility
    \/ FinalConfirmation
    \/ Chat

SpecApplicants == InitApplicants /\ [][NextApplicants]_vars

(***************************************************************************)
(* The response generator called on its own: LLMService.generate_response  *)
(* with the prompts of the workflow, against a remote API that behaves in  *)
(* every way on every attempt.                                             *)
(***************************************************************************)
llm_cache_ttl == 300
llm_max_retries_values == 1..MaxLLMRetries

\* the prompts of the six call sites of api.py and two chat messages, each
\* with the keywords of _get_mock_response that its lower-cased text holds
PromptKeywords ==
    [greet |-> {"greet"},
     confirm_loan_type |-> {"confirm", "data"},
     confirm_data |-> {"confirm", "data", "loan amount"},
     ask_loan_amount |-> {"loan amount"},
     denial |-> {},
     hello |-> {},
     was_it_approved |-> {"approved"},
     why_denied |-> {"denied"}]

Prompts == DOMAIN PromptKeywords

\* contexts as the handlers build them: without and with the amount that
\* final_confirmation adds, and the empty dict of a session without context
LLMContexts ==
    {EmptyDict,
     [name |-> John_Doe, step |-> "chat"],
     [name |-> John_Doe, step |-> "final_confirmation", amount |-> 250000]}

valued_customer == <<"v", "a", "l", "u", "e", "d", " ", "c", "u", "s", "t", "o", "m", "e", "r">>

MockText(kind, name, amount) == [kind |-> kind, name |-> name, amount |-> amount]

_get_mock_response(prompt, context) ==
    LET keywords == PromptKeywords[prompt] IN
    IF "greet" \in keywords
    THEN MockText("mock:greet",
                  IF context # EmptyDict THEN Get(context, "name", valued_customer)
                  ELSE valued_customer, 0)
    ELSE IF "confirm" \in keywords /\ "data" \in keywords
    THEN MockText("mock:confirm_data", <<>>, 0)
    ELSE IF "loan amount" \in keywords
    THEN MockText("mock:loan_amount", <<>>, 0)
    ELSE IF "approved" \in keywords
    THEN MockText("mock:approved", <<>>,
                  IF context # EmptyDict THEN Get(context, "amount", 0) ELSE 0)
    ELSE IF "denied" \in keywords
    THEN MockText("mock:denied", <<>>, 0)
    ELSE MockText("mock:default", <<>>, 0)

MockTexts == {_get_mock_response(prompt, context) : prompt \in Prompts, context \in LLMContexts}

\* how the remote API can behave on one attempt
LLMApiBehaviours ==
    {"success", "rate_limit", "server_error", "client_error", "timeout", "malformed_body"}

\* one pass through the body of the retry loop: a 200 with a readable body
\* returns; a 429 or a 5xx continues, or on the last attempt falls off the
\* if chain; a 4xx raises LLMServiceException, a timeout RequestException, an
\* unreadable body KeyError and the like, each caught inside the loop
attempt_outcome(behaviour) ==
    CASE behaviour = "success" -> "return"
      [] behaviour \in {"rate_limit", "server_error"} -> "next_attempt"
      [] behaviour = "client_error" -> "next_attempt"
      [] behaviour = "timeout" -> "next_attempt"
      [] behaviour = "malformed_body" -> "next_attempt"

\* faulty variant: the loop makes one attempt more than configured
attempts_range_OneMore(max_retries) == 0..max_retries

\* range(self.max_retries)
attempts_range(max_retries) == 0..(max_retries - 1)

\* the retry loop from the attempt numbered Len(trace) on, over every
\* behaviour of the API; trace lists the HTTP attempts made
RECURSIVE retry_loop(_, _)
retry_loop(trace, max_retries) ==
    IF Len(trace) \notin attempts_range(max_retries)
    THEN {[returned |-> FALSE, trace |-> trace]}
    ELSE UNION {LET attempts == Append(trace, behaviour) IN
                IF attempt_outcome(behaviour) = "return"
                THEN {[returned |-> TRUE, trace |-> attempts]}
                ELSE retry_loop(attempts, max_retries) :
                    behaviour \in LLMApiBehaviours}

llm_is_cache_valid(cache_entry, t) == t - cache_entry.timestamp < llm_cache_ttl

\* the [message, source, trace] outcomes of one call; cached is the entry
\* of response_cache under the call's key, the empty set when there is none
generate_response_with(prompt, context, cached, api_key_set, max_retries, t) ==
    IF \E cache_entry \in cached : llm_is_cache_valid(cache_entry, t)
    THEN {[message |-> cache_entry.response, source |-> "cache", trace |-> <<>>] :
            cache_entry \in cached}
    ELSE IF ~api_key_set
    THEN {[message |-> _get_mock_response(prompt, context), source |-> "mock",
           trace |-> <<>>]}
    ELSE {IF loop.returned
          THEN [message |-> generate_response(prompt), source |-> "api",
                trace |-> loop.trace]
          ELSE [message |-> _get_mock_response(prompt, context), source |-> "mock",
                trace |-> loop.trace] :
            loop \in retry_loop(<<>>, max_retries)}

\* a response cached by an earlier successful call with the same key
CachedResponses(prompt) ==
    {{}, {[response |-> generate_response(prompt), timestamp |-> 0]}}

GenerateRequest(prompt, context, cached, api_key_set, max_retries) ==
    [op |-> "generate_response", user_id |-> "USR001", loan_type |-> "",
     loan_amount |-> 0, message |-> "", prompt |-> prompt, context |-> context,
     cached |-> cached, api_key_set |-> api_key_set, max_retries |-> max_retries]

GenerateResult(outcome) ==
    [type |-> "generate_response", message |-> outcome.message,
     source |-> outcome.source, trace |-> outcome.trace]

\* the calls made: every prompt and context, with and without an API key,
\* with and without a cached response, for every configured retry count
GenerateRequests ==
    UNION {{GenerateRequest(prompt, context, cached, api_key_set, max_retries) :
                cached \in CachedResponses(prompt)} :
            prompt \in Prompts, context \in LLMContexts, api_key_set \in BOOLEAN,
            max_retries \in llm_max_retries_values}

\* one call of generate_response, answered
GenerateResponse ==
    /\ request.op = "generate_response"
    /\ response = Ok(NoBody)
    /\ \E outcome \in generate_response_with(request.prompt, request.context,
                                             request.cached, request.api_key_set,
                                             request.max_retries, now) :
          response' = Ok(GenerateResult(outcome))
    /\ UNCHANGED <<rate_limiter, conversations, history,
                   user_sessions, users_file, check_cache, ofac_api, settings, now,
                   request>>

InitLLM ==
    /\ user_sessions = EmptyDict
    /\ users_file = ApplicantsFile
    /\ check_cache = EmptyDict
    /\ ofac_api = FALSE
    /\ settings = DefaultSettings
    /\ now = 0
    /\ request \in GenerateRequests
    /\ response = Ok(NoBody)
    /\ rate_limiter = NewRateLimitMiddleware
    /\ conversations = EmptyDict
    /\ history = <<>>

NextLLM ==
    \/ GenerateResponse
    \/ Tick

SpecLLM == InitLLM /\ [][NextLLM]_vars

(***************************************************************************)
(* The rate limiter on its own: RateLimitMiddleware.dispatch for requests  *)
(* of two clients to exempt and other paths, half a window apart or at the *)
(* same time.                                                              *)
(***************************************************************************)
ExemptPaths == {"/", "/health", "/docs", "/openapi.json"}
Paths == ExemptPaths \cup {"/chat"}
\* _get_client_id: the client host, or "unknown" without one
Clients == {"10.0.0.1", "unknown"}

\* while client_requests and client_requests[0] < cutoff_time: popleft()
RECURSIVE DropOld(_, _)
DropOld(client_requests, cutoff_time) ==
    IF client_requests # <<>> /\ Head(client_requests) < cutoff_time
    THEN DropOld(Tail(client_requests), cutoff_time)
    ELSE client_requests

_cleanup_old_requests(limiter, t) ==
    IF t - limiter.last_cleanup > cleanup_interval
    THEN LET cutoff_time == t - rate_limit_window
             pruned == [c \in DOMAIN limiter.requests |->
                            DropOld(limiter.requests[c], cutoff_time)]
         IN  [requests |-> [c \in {d \in DOMAIN pruned : pruned[d] # <<>>} |-> pruned[c]],
              last_cleanup |-> t]
    ELSE limiter

\* faulty variant: the limit is compared with > instead of >=
_is_rate_limited_OffByOne(limiter, client_id, t) ==
    LET cutoff_time == t - rate_limit_window
        client_requests == DropOld(Get(limiter.requests, client_id, <<>>), cutoff_time)
        limited == Len(client_requests) > rate_limit_requests
    IN  [limited |-> limited,
         limiter |-> [limiter EXCEPT !.requests =
                        Put(limiter.requests, client_id,
                            IF limited THEN client_requests
                            ELSE Append(client_requests, t))]]

\* self.requests is a defaultdict: reading a client's deque creates it
_is_rate_limited(limiter, client_id, t) ==
    LET cutoff_time == t - rate_limit_window
        client_requests == DropOld(Get(limiter.requests, client_id, <<>>), cutoff_time)
        limited == Len(client_requests) >= rate_limit_requests
    IN  [limited |-> limited,
         limiter |-> [limiter EXCEPT !.requests =
                        Put(limiter.requests, client_id,
                            IF limited THEN client_requests
                            ELSE Append(client_requests, t))]]

\* the request is handed to the rest of the application
call_next(path) == Ok([type |-> "call_next", path |-> path])

RateLimitExceeded ==
    [status |-> 429, raised |-> "", error_code |-> "RATE_LIMIT_EXCEEDED",
     detail |-> "Rate limit exceeded", body |-> NoBody]

dispatch(limiter, client_id, path, t) ==
    IF path \in ExemptPaths
    THEN [limiter |-> limiter, response |-> call_next(path)]
    ELSE LET checked == _is_rate_limited(_cleanup_old_requests(limiter, t), client_id, t)
         IN  [limiter |-> checked.limiter,
              response |-> IF checked.limited THEN RateLimitExceeded
                           ELSE call_next(path)]

DispatchRequest(client_id, path) ==
    [op |-> "dispatch", user_id |-> "", loan_type |-> "", loan_amount |-> 0,
     message |-> "", client_id |-> client_id, path |-> path]

\* history lists, client by client, the times of the requests that were
\* counted and admitted
Dispatch ==
    \E client_id \in Clients, path \in Paths :
        LET outcome == dispatch(rate_limiter, client_id, path, now) IN
        /\ rate_limiter' = outcome.limiter
        /\ response' = outcome.response
        /\ request' = DispatchRequest(client_id, path)
        /\ history' = IF path \notin ExemptPaths /\ outcome.response.status = 200
                      THEN Put(history, client_id,
                               Append(Get(history, client_id, <<>>), now))
                      ELSE history
        /\ UNCHANGED <<user_sessions, users_file, check_cache, ofac_api, settings, now,
                       conversations>>

\* time passes between requests, half a window at a time
TickRate ==
    /\ now < MaxRateTicks * RateTickSeconds
    /\ now' = now + RateTickSeconds
    /\ UNCHANGED <<user_sessions, users_file, check_cache, ofac_api, settings,
                   request, response, rate_limiter, conversations, history>>

InitRateLimit ==
    /\ user_sessions = EmptyDict
    /\ users_file = ApplicantsFile
    /\ check_cache = EmptyDict
    /\ ofac_api = FALSE
    /\ settings = DefaultSettings
    /\ now = 0
    /\ request = NoRequest
    /\ response = Ok(NoBody)
    /\ rate_limiter = NewRateLimitMiddleware
    /\ conversations = EmptyDict
    /\ history = <<>>

NextRateLimit ==
    \/ Dispatch
    \/ TickRate

SpecRateLimit == InitRateLimit /\ [][NextRateLimit]_vars

(***************************************************************************)
(* The conversation history on its own: ConversationContext.add_message    *)
(* for the conversations of two users.                                     *)
(***************************************************************************)
ConversationUsers == {"USR001", "USR002"}

\* message contents: empty, one word, and three words of which one is
\* repeated and two are separated by two spaces
Empty_Content == <<>>
Ok_Content == <<"o", "k">>
A_B_A_Content == <<"a", " ", " ", "b", " ", "a">>

ConversationMessages ==
    {[role |-> "assistant", content |-> Empty_Content],
     [role |-> "user", content |-> Ok_Content],
     [role |-> "user", content |-> A_B_A_Content]}

\* len(content.split()): the number of maximal runs without whitespace
RECURSIVE WordCount(_)
WordCount(content) ==
    IF content = <<>> THEN 0
    ELSE IF Head(content) \in Whitespace THEN WordCount(Tail(content))
    ELSE IF Len(content) = 1 \/ content[2] \in Whitespace THEN 1 + WordCount(Tail(content))
    ELSE WordCount(Tail(content))

NewConversationContext(t) ==
    [messages |-> <<>>, created_at |-> t, last_updated |-> t, token_count |-> 0,
     max_messages |-> max_messages]

get_or_create_conversation(contexts, user_id, t) ==
    IF user_id \notin DOMAIN contexts
    THEN Put(contexts, user_id, NewConversationContext(t))
    ELSE contexts

\* faulty variant: the words of the removed message stay counted
add_message_KeepsTokens(context, role, content, t) ==
    LET appended == Append(context.messages, [role |-> role, content |-> content])
        counted == context.token_count + WordCount(content)
    IN  IF Len(appended) > context.max_messages
        THEN [context EXCEPT !.messages = Tail(appended),
                             !.last_updated = t,
                             !.token_count = counted]
        ELSE [context EXCEPT !.messages = appended,
                             !.last_updated = t,
                             !.token_count = counted]

add_message(context, role, content, t) ==
    LET appended == Append(context.messages, [role |-> role, content |-> content])
        counted == context.token_count + WordCount(content)
    IN  IF Len(appended) > context.max_messages
        THEN [context EXCEPT !.messages = Tail(appended),
                             !.last_updated = t,
                             !.token_count = counted - WordCount(Head(appended).content)]
        ELSE [context EXCEPT !.messages = appended,
                             !.last_updated = t,
                             !.token_count = counted]

AddMessageRequest(user_id, message) ==
    [op |-> "add_message", user_id |-> user_id, loan_type |-> "", loan_amount |-> 0,
     message |-> "", role |-> message.role, content |-> message.content]

RECURSIVE MessagesAdded(_, _)
MessagesAdded(log, users) ==
    IF users = {} THEN 0
    ELSE LET u == CHOOSE v \in users : TRUE
         IN  Len(Get(log, u, <<>>)) + MessagesAdded(log, users \ {u})

\* history lists, user by user, the messages in the order they were added
AddMessage ==
    /\ MessagesAdded(history, ConversationUsers) < MaxMessagesAdded
    /\ \E user_id \in ConversationUsers, message \in ConversationMessages :
        LET contexts == get_or_create_conversation(conversations, user_id, now) IN
        /\ conversations' = Put(contexts, user_id,
                                add_message(contexts[user_id], message.role,
                                            message.content, now))
        /\ history' = Put(history, user_id, Append(Get(history, user_id, <<>>), message))
        /\ request' = AddMessageRequest(user_id, message)
        /\ response' = Ok([type |-> "add_message"])
        /\ UNCHANGED <<user_sessions, users_file, check_cache, ofac_api, settings, now,
                       rate_limiter>>

InitConversation ==
    /\ user_sessions = EmptyDict
    /\ users_file = ApplicantsFile
    /\ check_cache = EmptyDict
    /\ ofac_api = FALSE
    /\ settings = DefaultSettings
    /\ now = 0
    /\ request = NoRequest
    /\ response = Ok(NoBody)
    /\ rate_limiter = NewRateLimitMiddleware
    /\ conversations = EmptyDict
    /\ history = <<>>

NextConversation == AddMessage

SpecConversation == InitConversation /\ [][NextConversation]_vars

(***************************************************************************)
(* Vocabulary of the properties.                                           *)
(***************************************************************************)
HasSession(user_id) == user_id \in DOMAIN user_sessions

\* process_halted of the specification is process_complete of the code
Halted(user_id) == HasSession(user_id) /\ process_complete(user_sessions[user_id])

\* the step taken is the handling of a request (Tick alone moves the clock,
\* UpdateUser alone rewrites the sheet)
Served == now' = now /\ users_file' = users_file

ServedFor(ops, user_id) ==
    Served /\ request'.op \in ops /\ request'.user_id = user_id

ShortCircuitOps ==
    {"confirm_user_data", "ask_loan_amount", "calculate_eligibility",
     "final_confirmation", "chat"}

ReplacingOps == {"greet_user", "fetch_user_data"}

\* the session-not-found failure, as SessionNotFoundException or as the
\* HTTP 400 "Session not found" that four of the handlers raise
IsSessionNotFound(resp) ==
    \/ resp.raised = "SessionNotFoundException"
    \/ resp.raised = "HTTPException" /\ resp.detail = "Session not found"

\* position of a session's step value in the fixed sequence (0: not in the
\* sequence); no handler writes a step value for a fourth position
StepPosition(step) ==
    CASE step = "loan_type_selection" -> 1
      [] step = "data_confirmation" -> 2
      [] step = "loan_amount_input" -> 3
      [] OTHER -> 0

StepNotEarlier(user_id) ==
    LET before == StepPosition(user_sessions[user_id].step)
        after == StepPosition(user_sessions'[user_id].step)
    IN  before > 0 => after >= before

EligibilityFigures == {"loan_amount", "eligibility", "eligible_amount", "total_eligibility"}

(***************************************************************************)
(* Properties.                                                             *)
(***************************************************************************)

\* C1: on a halted session, each of confirm_user_data, ask_loan_amount,
\* calculate_eligibility, final_confirmation and chat answers with exactly
\* the halt message stored in the session and leaves the whole session
\* store as it was.
C1_HaltedShortCircuit ==
    [][\A u \in UserIds :
        (ServedFor(ShortCircuitOps, u) /\ Halted(u))
        => /\ response'.status = 200
           /\ response'.body.message = user_sessions[u].llm_message
           /\ user_sessions' = user_sessions]_vars

C1_Witness ==
    /\ request.op = "calculate_eligibility"
    /\ Halted(request.user_id)
    /\ response.status = 200
    /\ response.body.message = user_sessions[request.user_id].llm_message

\* C2: every transition other than Greet, invoked for an applicant without a
\* session, fails with session-not-found and leaves the applicant without a
\* session.
C2_NoSessionFails ==
    [][\A u \in UserIds :
        (ServedFor(ShortCircuitOps \cup {"fetch_user_data"}, u) /\ ~HasSession(u))
        => /\ IsSessionNotFound(response')
           /\ u \notin DOMAIN user_sessions']_vars

\* C3 as claimed: no operation at all, a repeated Greet or SelectLoanType
\* included, moves the step of an existing session to an earlier position.
C3_StepNeverBackward ==
    [][\A u \in DOMAIN user_sessions \cap DOMAIN user_sessions' :
        StepNotEarlier(u)]_vars

\* C3 as amended: Greet and SelectLoanType replace the applicant's session
\* (step restarts at loan_type_selection, or at data_confirmation or the
\* halted step); every other operation leaves the step of every session it
\* keeps at the same or a later position.
C3_StepBackwardOnlyByReplacement ==
    [][\A u \in DOMAIN user_sessions \cap DOMAIN user_sessions' :
        ServedFor(ReplacingOps, u) \/ StepNotEarlier(u)]_vars

C3_Witness ==
    /\ request.op = "confirm_user_data"
    /\ response.status = 200
    /\ HasSession(request.user_id)
    /\ user_sessions[request.user_id].step = "loan_amount_input"
    /\ "loan_type" \in DOMAIN user_sessions[request.user_id]

\* C4: on an existing non-halted session, ConfirmData, RequestLoanAmount and
\* CalculateEligibility before SelectLoanType has run, and FinalConfirmation
\* before CalculateEligibility has run, fail with session-not-found and leave
\* the session store as it was.
C4_NoStepSkipped ==
    [][\A u \in UserIds :
        (/\ HasSession(u)
         /\ ~Halted(u)
         /\ \/ /\ ServedFor({"confirm_user_data", "ask_loan_amount",
                             "calculate_eligibility"}, u)
               /\ "loan_type" \notin DOMAIN user_sessions[u]
            \/ /\ ServedFor({"final_confirmation"}, u)
               /\ "eligibility" \notin DOMAIN user_sessions[u])
        => /\ IsSessionNotFound(response')
           /\ user_sessions' = user_sessions]_vars

\* C5 as claimed: once an applicant's session is halted, no later operation,
\* a repeated Greet or SelectLoanType included, leaves the applicant with a
\* session that is not halted, and the stored halt message never changes.
C5_HaltedAbsorbing ==
    [][\A u \in UserIds :
        (Halted(u) /\ u \in DOMAIN user_sessions')
        => /\ process_complete(user_sessions'[u])
           /\ llm_message(user_sessions'[u]) = llm_message(user_sessions[u])]_vars

\* C5 as amended: once an applicant's session is halted, every later step
\* other than a Greet or SelectLoanType for that applicant (which replace
\* the session) leaves the session in place, halted, with the same stored
\* halt message.
C5_HaltedUntilReplaced ==
    [][\A u \in UserIds :
        Halted(u)
        => \/ ServedFor(ReplacingOps, u)
           \/ /\ u \in DOMAIN user_sessions'
              /\ process_complete(user_sessions'[u])
              /\ llm_message(user_sessions'[u]) = llm_message(user_sessions[u])]_vars

C5_Witness ==
    /\ request.op = "chat"
    /\ Halted(request.user_id)
    /\ response.status = 200
    /\ response.body.message.kind = "compliance_decline"

\* a session written by fetch_user_data on a screening that was not clear
WrittenByFailedScreening(session) ==
    /\ "user_data" \in DOMAIN session
    /\ "ofac_clear" \in DOMAIN session.context
    /\ ~session.context.ofac_clear

\* C6: a session is halted exactly if it was written by a SelectLoanType whose
\* screening returned not clear: only a fetch_user_data step that answers
\* ofac_check = false makes a session halted, every such step does, and a
\* halted session has step ofac_failed and stores the compliance-decline
\* message.
C6_HaltedOnlyByFailedScreening ==
    [][\A u \in DOMAIN user_sessions' :
        LET session == user_sessions'[u] IN
        /\ process_complete(session) <=> WrittenByFailedScreening(session)
        /\ process_complete(session)
           => /\ session.step = "ofac_failed"
              /\ "llm_message" \in DOMAIN session
              /\ session.llm_message = ComplianceDeclineMessage(session.user_data.Name)
        /\ (process_complete(session) /\ ~Halted(u))
           => /\ ServedFor({"fetch_user_data"}, u)
              /\ response'.status = 200
              /\ ~response'.body.ofac_check
        /\ (ServedFor({"fetch_user_data"}, u) /\ response'.status = 200
                /\ ~response'.body.ofac_check)
           => process_complete(session)]_vars

C6_Witness ==
    /\ request.op = "fetch_user_data"
    /\ response.status = 200
    /\ ~response.body.ofac_check
    /\ Halted(request.user_id)
    /\ user_sessions[request.user_id].step = "ofac_failed"

\* C7: FinalConfirmation on a non-halted session deletes it on approval and on
\* denial, and every ConfirmData, RequestLoanAmount, CalculateEligibility,
\* FinalConfirmation or Chat that follows it for the same applicant fails
\* with session-not-found.
C7_CompletedThenSessionNotFound ==
    [][\A u \in UserIds :
        /\ (ServedFor({"final_confirmation"}, u) /\ HasSession(u) /\ ~Halted(u))
           => u \notin DOMAIN user_sessions'
        /\ (/\ request.op = "final_confirmation"
            /\ request.user_id = u
            /\ response.status = 200
            /\ ~HasSession(u)
            /\ ServedFor(ShortCircuitOps, u))
           => IsSessionNotFound(response')]_vars

\* C8: FinalConfirmation on a halted session answers with the compliance-decline
\* message composed when the session was halted and leaves the session in
\* the store, unchanged.
C8_FinalConfirmationKeepsHalted ==
    [][\A u \in UserIds :
        (ServedFor({"final_confirmation"}, u) /\ Halted(u))
        => /\ response'.status = 200
           /\ response'.body.message =
                ComplianceDeclineMessage(user_sessions[u].user_data.Name)
           /\ response'.body.next_step = "complete"
           /\ u \in DOMAIN user_sessions'
           /\ user_sessions'[u] = user_sessions[u]]_vars

C8_Witness ==
    /\ request.op = "final_confirmation"
    /\ Halted(request.user_id)
    /\ response.status = 200
    /\ response.body.message = ComplianceDeclineMessage(Jane_Criminal)

\* C9: Greet for an applicant whose lookup returns nothing fails with
\* UserNotFound and leaves the session store unchanged; Greet for an applicant
\* whose lookup succeeds leaves that applicant one session with step
\* loan_type_selection, not halted, whose context holds the record's name,
\* and leaves the other applicants' sessions alone.
C9_Greet ==
    [][\A u \in UserIds :
        ServedFor({"greet_user"}, u)
        => LET lookup == get_user_data(users_file, u) IN
           /\ (~lookup.raised /\ ~lookup.found)
              => /\ response'.raised = "UserNotFoundException"
                 /\ user_sessions' = user_sessions
           /\ (~lookup.raised /\ lookup.found)
              => /\ response'.status = 200
                 /\ u \in DOMAIN user_sessions'
                 /\ user_sessions'[u].step = "loan_type_selection"
                 /\ ~process_complete(user_sessions'[u])
                 /\ user_sessions'[u].context.name = lookup.data.Name
                 /\ \A v \in UserIds \ {u} :
                        /\ v \in DOMAIN user_sessions' <=> HasSession(v)
                        /\ HasSession(v) => user_sessions'[v] = user_sessions[v]]_vars

C9_Witness ==
    /\ request.op = "greet_user"
    /\ response.status = 200
    /\ HasSession(request.user_id)
    /\ user_sessions[request.user_id].step = "loan_type_selection"
    /\ user_sessions[request.user_id].context.name = users_file[request.user_id].Name

\* C10: SelectLoanType succeeds whenever the lookup does, whatever session was
\* there before, and branches on the screening verdict alone: not clear
\* leaves the session halted with the compliance-decline message and no
\* eligibility figures; clear leaves it at data_confirmation, not halted,
\* holding the requested loan_type and the record's income, expenses and
\* existing loan.
C10_SelectLoanTypeBranches ==
    [][\A u \in UserIds :
        ServedFor({"fetch_user_data"}, u)
        => LET lookup == get_user_data(users_file, u) IN
           (~lookup.raised /\ lookup.found)
           => LET session == user_sessions'[u]
                  record == lookup.data
              IN  /\ response'.status = 200
                  /\ u \in DOMAIN user_sessions'
                  /\ DOMAIN session \cap EligibilityFigures = {}
                  /\ IF ~response'.body.ofac_check
                     THEN /\ process_complete(session)
                          /\ session.step = "ofac_failed"
                          /\ session.llm_message = ComplianceDeclineMessage(record.Name)
                     ELSE /\ ~process_complete(session)
                          /\ session.step = "data_confirmation"
                          /\ session.loan_type = request'.loan_type
                          /\ session.user_data = record
                          /\ session.context.monthly_income = record.MonthlyIncome
                          /\ session.context.monthly_expenses = record.MonthlyExpenses
                          /\ session.context.existing_loan = record.ExistingLoan]_vars

C10_Witness ==
    /\ request.op = "fetch_user_data"
    /\ response.status = 200
    /\ response.body.ofac_check
    /\ HasSession(request.user_id)
    /\ user_sessions[request.user_id].step = "data_confirmation"
    /\ user_sessions[request.user_id].loan_type = "home"

\* the request is a calculate_eligibility for an applicant whose session
\* exists and is not halted
CalculatesFor(user_id) ==
    /\ ServedFor({"calculate_eligibility"}, user_id)
    /\ HasSession(user_id)
    /\ ~Halted(user_id)

InvalidAmount(loan_amount) == loan_amount <= 0 \/ loan_amount > max_loan_amount

\* C11: calculate_eligibility with an amount that is not positive or exceeds
\* the ceiling, on an existing non-halted session, fails with
\* ValidationException (VALIDATION_ERROR) and leaves the session store as it
\* was.
C11_InvalidAmountValidationError ==
    [][\A u \in UserIds :
        (CalculatesFor(u) /\ InvalidAmount(request'.loan_amount))
        => /\ response'.raised = "ValidationException"
           /\ user_sessions' = user_sessions]_vars

\* the step values the handlers write before the eligibility calculation,
\* and the halted one
StepsBeforeFinalConfirmation ==
    {"loan_type_selection", "data_confirmation", "loan_amount_input", "ofac_failed"}

\* C12: a successful calculate_eligibility on a non-halted session stores
\* loan_amount, eligible_amount, eligibility and total_eligibility as answered
\* and leaves the session at a step after loan_amount_input.
C12_CalculationAdvancesStep ==
    [][\A u \in UserIds :
        (CalculatesFor(u) /\ response'.status = 200)
        => /\ u \in DOMAIN user_sessions'
           /\ EligibilityFigures \subseteq DOMAIN user_sessions'[u]
           /\ user_sessions'[u].loan_amount = response'.body.requested_amount
           /\ user_sessions'[u].eligible_amount = response'.body.eligible_loan_amount
           /\ user_sessions'[u].eligibility = response'.body.is_eligible
           /\ user_sessions'[u].total_eligibility = response'.body.total_loan_eligibility
           /\ user_sessions'[u].step \notin StepsBeforeFinalConfirmation]_vars

\* the figures of the specification for a stored record, under the settings
ExpectedDisposable(record) == record.MonthlyIncome - record.MonthlyExpenses

ExpectedTotal(record) ==
    ExpectedDisposable(record) * settings.loan_term_years * settings.loan_multiplier

ExpectedEligible(record) ==
    LET rest == ExpectedTotal(record) - record.ExistingLoan
    IN  IF rest > 0 THEN rest ELSE 0

ExpectedVerdict(record, requested) ==
    /\ requested > 0
    /\ requested <= ExpectedEligible(record)
    /\ ExpectedEligible(record) > 0
    /\ ExpectedDisposable(record) > 0

\* a calculate_eligibility for user_id that passed validation and answered
Calculated(user_id) == CalculatesFor(user_id) /\ response'.status = 200

\* C13: for every validated request the answered is_eligible is
\* requested > 0 and requested <= eligible_amount and eligible_amount > 0 and
\* disposable_income > 0, with the figures of the record stored in the
\* session: the verdict is a function of that record and the amount alone.
C13_EligibilityVerdict ==
    [][\A u \in UserIds :
        Calculated(u)
        => /\ response'.body.is_eligible
                = ExpectedVerdict(user_sessions[u].user_data, request'.loan_amount)
           /\ response'.body.is_eligible
                = (/\ request'.loan_amount > 0
                   /\ request'.loan_amount <= response'.body.eligible_loan_amount
                   /\ response'.body.eligible_loan_amount > 0
                   /\ ExpectedDisposable(user_sessions[u].user_data) > 0)]_vars

C13_Witness ==
    /\ request.op = "calculate_eligibility"
    /\ response.status = 200
    /\ HasSession(request.user_id)
    /\ ~Halted(request.user_id)
    /\ response.body.eligible_loan_amount > 0
    /\ request.loan_amount > response.body.eligible_loan_amount
    /\ ~response.body.is_eligible

\* C14: total_eligibility is (income - expenses) * loan_term_years *
\* loan_multiplier and eligible_amount is max(0, total_eligibility - existing
\* loan); the answered and the stored eligible_amount are never negative.
C14_EligibleAmountFormula ==
    [][\A u \in UserIds :
        Calculated(u)
        => LET record == user_sessions[u].user_data
               after == user_sessions'[u]
           IN  /\ response'.body.total_loan_eligibility = ExpectedTotal(record)
               /\ response'.body.eligible_loan_amount = ExpectedEligible(record)
               /\ after.total_eligibility = ExpectedTotal(record)
               /\ after.eligible_amount = ExpectedEligible(record)
               /\ response'.body.eligible_loan_amount >= 0
               /\ after.eligible_amount >= 0]_vars

\* the total minus the existing loan is negative and the amount is floored
C14_Witness ==
    /\ request.op = "calculate_eligibility"
    /\ response.status = 200
    /\ HasSession(request.user_id)
    /\ ~Halted(request.user_id)
    /\ response.body.total_loan_eligibility
         < user_sessions[request.user_id].user_data.ExistingLoan
    /\ user_sessions[request.user_id].eligible_amount = 0
    /\ response.body.eligible_loan_amount = 0

\* C15: with income 8000, expenses 3000, existing loan 20000 and the default
\* settings (term 12, multiplier 5) the calculation answers total 300000 and
\* eligible amount 280000; 250000 is eligible, 290000 is not and is answered
\* with the amount-exceeds-limit message.
C15_ScenarioFigures ==
    [][\A u \in UserIds :
        (/\ Calculated(u)
         /\ settings = DefaultSettings
         /\ user_sessions[u].user_data.MonthlyIncome = 8000
         /\ user_sessions[u].user_data.MonthlyExpenses = 3000
         /\ user_sessions[u].user_data.ExistingLoan = 20000)
        => /\ response'.body.total_loan_eligibility = 300000
           /\ response'.body.eligible_loan_amount = 280000
           /\ request'.loan_amount = 250000
                => /\ response'.body.is_eligible
                   /\ response'.body.message = Text("eligible")
           /\ request'.loan_amount = 290000
                => /\ ~response'.body.is_eligible
                   /\ response'.body.message = Text("amount_exceeds_limit")]_vars

C15_Witness ==
    /\ request.op = "calculate_eligibility"
    /\ request.loan_amount = 290000
    /\ response.status = 200
    /\ response.body.total_loan_eligibility = 300000
    /\ response.body.eligible_loan_amount = 280000
    /\ ~response.body.is_eligible
    /\ response.body.message = Text("amount_exceeds_limit")

\* the sheet's record of user_id is no longer the one stored in the session
RecordChanged(user_id) ==
    /\ user_id \in DOMAIN users_file
    /\ "user_data" \in DOMAIN user_sessions[user_id]
    /\ users_file[user_id] # user_sessions[user_id].user_data

\* C16: the session keeps its own copy of the record that fetch_user_data
\* read: rewriting the sheet changes no session, and a later
\* calculate_eligibility answers the verdict and figures of the stored copy,
\* not of the changed record, and keeps the copy.
C16_SnapshotDecoupled ==
    [][/\ users_file' # users_file => user_sessions' = user_sessions
       /\ \A u \in UserIds :
            (Calculated(u) /\ RecordChanged(u))
            => LET snapshot == user_sessions[u].user_data IN
               /\ response'.body.total_loan_eligibility = ExpectedTotal(snapshot)
               /\ response'.body.eligible_loan_amount = ExpectedEligible(snapshot)
               /\ response'.body.is_eligible
                    = ExpectedVerdict(snapshot, request'.loan_amount)
               /\ user_sessions'[u].user_data = snapshot]_vars

\* a calculation answered after the sheet changed to a record that would
\* have given another eligible amount
C16_Witness ==
    /\ request.op = "calculate_eligibility"
    /\ response.status = 200
    /\ HasSession(request.user_id)
    /\ ~Halted(request.user_id)
    /\ RecordChanged(request.user_id)
    /\ response.body.eligible_loan_amount
         = ExpectedEligible(user_sessions[request.user_id].user_data)
    /\ response.body.eligible_loan_amount
         # ExpectedEligible(users_file[request.user_id])

\* the request before this step was answered with 200 and was op for user_id
PreviousWas(op, user_id) ==
    /\ request.op = op
    /\ request.user_id = user_id
    /\ response.status = 200

\* C17: calculate_eligibility is last-write-wins. Each successful call
\* answers the verdict of the amount it was given and stores that amount
\* and verdict; a second successful call, with a2 after a1, overwrites what
\* the first stored; a final_confirmation on the session approves exactly
\* if the stored verdict, that of the last amount, is eligible.
C17_LastWriteWins ==
    [][\A u \in UserIds :
        /\ Calculated(u)
           => LET verdict == ExpectedVerdict(user_sessions[u].user_data,
                                             request'.loan_amount)
              IN  /\ response'.body.is_eligible = verdict
                  /\ user_sessions'[u].loan_amount = request'.loan_amount
                  /\ user_sessions'[u].eligibility = verdict
        /\ (Calculated(u) /\ PreviousWas("calculate_eligibility", u))
           => /\ user_sessions[u].loan_amount = request.loan_amount
              /\ user_sessions[u].eligibility = response.body.is_eligible
              /\ user_sessions'[u].loan_amount = request'.loan_amount
              /\ user_sessions'[u].eligibility = response'.body.is_eligible
        /\ (/\ ServedFor({"final_confirmation"}, u)
            /\ HasSession(u)
            /\ ~Halted(u)
            /\ "eligibility" \in DOMAIN user_sessions[u])
           => /\ response'.status = 200
              /\ (response'.body.message = ApprovalMessage)
                   <=> user_sessions[u].eligibility
              /\ (response'.body.message = generate_response("denial"))
                   <=> ~user_sessions[u].eligibility]_vars

\* a calculation whose stored amount and verdict are those of its request
C17_Witness ==
    /\ request.op = "calculate_eligibility"
    /\ request.loan_amount = 250000
    /\ response.status = 200
    /\ HasSession(request.user_id)
    /\ ~Halted(request.user_id)
    /\ user_sessions[request.user_id].loan_amount = 250000
    /\ user_sessions[request.user_id].eligibility
    /\ response.body.is_eligible

\* C18: chat on an existing non-halted session answers and leaves the whole
\* session store as it was: step, context, loan_type, figures and halted
\* flag keep their values and the session is not deleted.
C18_ChatChangesNothing ==
    [][\A u \in UserIds :
        (ServedFor({"chat"}, u) /\ HasSession(u) /\ ~Halted(u))
        => /\ response'.status = 200
           /\ user_sessions' = user_sessions]_vars

C18_Witness ==
    /\ request.op = "chat"
    /\ response.status = 200
    /\ HasSession(request.user_id)
    /\ ~Halted(request.user_id)
    /\ EligibilityFigures \subseteq DOMAIN user_sessions[request.user_id]
    /\ response.body.message = generate_response(request.message)

\* C19: confirm_user_data on a non-halted session sets step to
\* loan_amount_input, and after a successful ask_loan_amount on a non-halted
\* session the step is loan_amount_input.
C19_AwaitingLoanAmount ==
    [][\A u \in UserIds :
        (/\ ServedFor({"confirm_user_data", "ask_loan_amount"}, u)
         /\ HasSession(u)
         /\ ~Halted(u)
         /\ response'.status = 200)
        => /\ u \in DOMAIN user_sessions'
           /\ user_sessions'[u].step = "loan_amount_input"]_vars

\* a session without the timestamp of its context
Untimed(session) ==
    IF "context" \in DOMAIN session
    THEN Update(session, [context |-> Del(session.context, "timestamp")])
    ELSE session

\* C20: confirm_user_data and ask_loan_amount are idempotent apart from the
\* timestamp: a second call in a row on a non-halted session leaves the
\* session as the first left it, the context timestamp aside, and answers the
\* same prompt.
C20_IdempotentApartFromTimestamp ==
    [][\A u \in UserIds : \A op \in {"confirm_user_data", "ask_loan_amount"} :
        (/\ PreviousWas(op, u)
         /\ ServedFor({op}, u)
         /\ HasSession(u)
         /\ ~Halted(u))
        => /\ response' = response
           /\ u \in DOMAIN user_sessions'
           /\ Untimed(user_sessions'[u]) = Untimed(user_sessions[u])
           /\ DOMAIN user_sessions'[u].context = DOMAIN user_sessions[u].context]_vars

\* a confirmation answered later than the session's data was fetched
C20_Witness ==
    /\ request.op = "confirm_user_data"
    /\ response.status = 200
    /\ HasSession(request.user_id)
    /\ ~Halted(request.user_id)
    /\ "user_data" \in DOMAIN user_sessions[request.user_id]
    /\ user_sessions[request.user_id].step = "loan_amount_input"
    /\ user_sessions[request.user_id].context.step = "data_confirmation"
    /\ user_sessions[request.user_id].context.timestamp
         > user_sessions[request.user_id].created_at

\* the keys of the context of user_id's session are all kept by the step
ContextKeysKept(user_id) ==
    DOMAIN user_sessions[user_id].context \subseteq DOMAIN user_sessions'[user_id].context

\* C21 as claimed: while a session exists no operation, Greet and
\* SelectLoanType included, removes a key from its context.
C21_ContextNeverShrinks ==
    [][\A u \in DOMAIN user_sessions \cap DOMAIN user_sessions' :
        ContextKeysKept(u)]_vars

\* C21 as amended: confirm_user_data, ask_loan_amount, calculate_eligibility
\* and chat only add context keys or overwrite their values; greet_user and
\* fetch_user_data replace the applicant's session, its context included, by
\* a fresh one.
C21_ContextShrinksOnlyByReplacement ==
    [][\A u \in DOMAIN user_sessions \cap DOMAIN user_sessions' :
        ServedFor(ReplacingOps, u) \/ ContextKeysKept(u)]_vars

\* a context that holds the keys of fetch_user_data, of ask_loan_amount's
\* step and of calculate_eligibility together
C21_Witness ==
    /\ request.op = "ask_loan_amount"
    /\ response.status = 200
    /\ HasSession(request.user_id)
    /\ ~Halted(request.user_id)
    /\ {"loan_type", "ofac_clear", "requested_amount", "is_eligible"}
         \subseteq DOMAIN user_sessions[request.user_id].context
    /\ user_sessions[request.user_id].context.step = "loan_amount_input"

\* the loan type of user_id's session, once set, is kept by the step
LoanTypeKept(user_id) ==
    "loan_type" \in DOMAIN user_sessions[user_id]
    => /\ "loan_type" \in DOMAIN user_sessions'[user_id]
       /\ user_sessions'[user_id].loan_type = user_sessions[user_id].loan_type

\* C22 as claimed: once a session has a loan_type no later operation, a
\* second SelectLoanType with another loan_type included, changes it.
C22_LoanTypeImmutable ==
    [][\A u \in DOMAIN user_sessions \cap DOMAIN user_sessions' :
        LoanTypeKept(u)]_vars

\* C22 as amended: confirm_user_data, ask_loan_amount, calculate_eligibility
\* and chat keep the loan_type; fetch_user_data replaces the session and
\* stores the loan_type of its own request, and greet_user replaces it by a
\* session without one.
C22_LoanTypeChangedOnlyByReplacement ==
    [][\A u \in DOMAIN user_sessions \cap DOMAIN user_sessions' :
        /\ ServedFor(ReplacingOps, u) \/ LoanTypeKept(u)
        /\ (ServedFor({"fetch_user_data"}, u) /\ response'.status = 200)
           => user_sessions'[u].loan_type = request'.loan_type
        /\ (ServedFor({"greet_user"}, u) /\ response'.status = 200)
           => "loan_type" \notin DOMAIN user_sessions'[u]]_vars

C22_Witness ==
    /\ request.op = "ask_loan_amount"
    /\ response.status = 200
    /\ HasSession(request.user_id)
    /\ ~Halted(request.user_id)
    /\ "loan_type" \in DOMAIN user_sessions[request.user_id]
    /\ user_sessions[request.user_id].loan_type = "home"
    /\ user_sessions[request.user_id].context.loan_type = "home"

\* the step taken is a screening of user_name
Screens(user_name) ==
    /\ Served
    /\ request'.op = "check_sanctions"
    /\ request'.user_name = user_name

AllScreenedNames == SimulationNames \cup ApiNames

\* the normal form of the specification: trimmed, case-folded, every run of
\* internal whitespace collapsed to one space
RECURSIVE CollapseWhitespace(_)
CollapseWhitespace(s) ==
    IF Len(s) < 2 THEN s
    ELSE IF s[1] \in Whitespace /\ s[2] \in Whitespace
         THEN CollapseWhitespace(Tail(s))
         ELSE <<IF s[1] \in Whitespace THEN " " ELSE s[1]>> \o CollapseWhitespace(Tail(s))

CanonicalName(name) == CollapseWhitespace(Lower(Strip(name)))

\* the cache holds an entry, younger than the time-to-live, stored by a
\* screening of user_name
CachedFor(user_name) ==
    /\ Strip(user_name) # <<>>
    /\ _normalize_name(user_name) \in DOMAIN check_cache
    /\ _is_cache_valid(check_cache[_normalize_name(user_name)], now)

\* C23: two names that differ only in letter case, leading or trailing
\* whitespace or the amount of internal whitespace have the same cache key:
\* a screening of one, while the cache holds a verdict younger than the
\* time-to-live for the other, returns that verdict and leaves the cache
\* alone.
C23_CacheConsistentUnderNormalization ==
    [][\A first \in AllScreenedNames, second \in AllScreenedNames :
        (/\ CanonicalName(first) = CanonicalName(second)
         /\ CachedFor(first)
         /\ Screens(second))
        => /\ _normalize_name(second) = _normalize_name(first)
           /\ response'.body.result = check_cache[_normalize_name(first)].result
           /\ response'.body.status = check_cache[_normalize_name(first)].status
           /\ check_cache' = check_cache]_vars

\* the screened names whose normalized form is that of a denylist entry
ExactlyDenylisted ==
    {n \in AllScreenedNames :
        \E sn \in sanctioned_names : _normalize_name(n) = _normalize_name(sn)}

\* C24: a name whose normalized form equals the normalized form of a denylist
\* entry is screened not clear with the exact-match reason, with or without
\* the remote API configured and whatever the cache holds.
C24_ExactMatchFails ==
    [][\A n \in ExactlyDenylisted :
        Screens(n)
        => /\ ~response'.body.result
           /\ response'.body.status.text = "Exact match found on sanctions list"]_vars

\* the screened names that are no exact match and share two or more words
\* with a denylist entry, and those that share fewer than two with each
SharedWords(n, sn) ==
    SplitWords(_normalize_name(n), <<>>) \cap SplitWords(_normalize_name(sn), <<>>)

PartiallyDenylisted ==
    {n \in AllScreenedNames \ ExactlyDenylisted :
        \E sn \in sanctioned_names : Cardinality(SharedWords(n, sn)) >= 2}

NotDenylisted == AllScreenedNames \ (ExactlyDenylisted \cup PartiallyDenylisted)

PartialMatchText == "Potential partial match found - manual review required"

\* C25: a name that is no exact match and shares at least two words with a
\* denylist entry is screened not clear with the partial-match reason that
\* cites such an entry; a name that shares fewer than two words with every
\* entry is never given the partial-match reason.
C25_PartialMatchFails ==
    [][/\ \A n \in PartiallyDenylisted :
            Screens(n)
            => /\ ~response'.body.result
               /\ response'.body.status.text = PartialMatchText
               /\ Cardinality(SharedWords(n, response'.body.status.name)) >= 2
       /\ \A n \in NotDenylisted :
            Screens(n) => response'.body.status.text # PartialMatchText]_vars

\* the cache key of each screened name, and the names that are not blank
KeyOf == [n \in AllScreenedNames |-> _normalize_name(n)]
NonBlankNames == {n \in AllScreenedNames : Strip(n) # <<>>}

\* the fresh check ran on this step and the answer is its verdict; a check
\* that raised is answered with the error status
RanFreshCheck(n) ==
    /\ request'.draw # NoDraw
    /\ \E v \in FreshCheck(n, ofac_api, request'.draw) :
          IF v.raised
          THEN response'.body = ScreeningResult(FALSE, ErrorStatus)
          ELSE response'.body = ScreeningResult(v.result, v.status)

FreshCheckRaised(n) ==
    \E v \in FreshCheck(n, ofac_api, request'.draw) : v.raised

\* the entry of n's key after the step is the answered verdict, stored now
EntryReplaced(n) ==
    /\ KeyOf[n] \in DOMAIN check_cache'
    /\ check_cache'[KeyOf[n]] =
         [result |-> response'.body.result, status |-> response'.body.status,
          timestamp |-> now]

\* an entry younger than 3600 seconds is answered as it is, without a check
ServedFromCache(n) ==
    LET entry == check_cache[KeyOf[n]] IN
    /\ request'.draw = NoDraw
    /\ response'.body = ScreeningResult(entry.result, entry.status)
    /\ check_cache' = check_cache

ManualReviewTexts ==
    {"OFAC check timeout - manual review required",
     "OFAC check failed - manual review required",
     "OFAC API error - manual review required",
     "OFAC check rate limited - manual review required"}

\* the screening of this step could not be completed: the name is empty or
\* blank, or the remote API was called and timed out, failed, answered with
\* a status other than 200 or with a body the code cannot read
CheckNotCompleted ==
    /\ Served
    /\ request'.op = "check_sanctions"
    /\ \/ Strip(request'.user_name) = <<>>
       \/ /\ ofac_api
          /\ request'.draw # NoDraw
          /\ \/ request'.draw.fault # "none"
             \/ request'.draw.status_code # 200

ApiAnswered200 ==
    /\ Served
    /\ request'.op = "check_sanctions"
    /\ ofac_api
    /\ request'.draw # NoDraw
    /\ request'.draw.fault = "none"
    /\ request'.draw.status_code = 200

\* C28: with the remote API configured and a 200 answer, a highest score
\* above 0.8 gives not clear, a score above 0.6 and up to 0.8 gives not
\* clear, a score of 0.6 or below gives clear, and an answer that lists no
\* matches gives clear (scores in hundredths).
C28_ConfidenceBands ==
    [][ApiAnswered200
        => LET answer == request'.draw
               verdict == response'.body
           IN  IF answer.matches
               THEN /\ answer.highest_score > 80 => ~verdict.result
                    /\ (answer.highest_score > 60 /\ answer.highest_score <= 80)
                          => ~verdict.result
                    /\ answer.highest_score <= 60 => verdict.result
               ELSE verdict.result]_vars

\* a match scored 0.61, just inside the medium band, was not cleared
C28_Witness ==
    /\ request.op = "check_sanctions"
    /\ ofac_api
    /\ request.draw # NoDraw
    /\ request.draw.fault = "none"
    /\ request.draw.status_code = 200
    /\ request.draw.matches
    /\ request.draw.highest_score = 61
    /\ ~response.body.result
    /\ response.body.status.text = "Potential match found - manual review required"

\* every operation of the workflow
WorkflowOps ==
    {"greet_user", "fetch_user_data", "confirm_user_data", "ask_loan_amount",
     "calculate_eligibility", "final_confirmation", "chat"}

\* the step neither creates, nor modifies, nor deletes user_id's session
SessionUntouched(user_id) ==
    /\ (user_id \in DOMAIN user_sessions') = (user_id \in DOMAIN user_sessions)
    /\ user_id \in DOMAIN user_sessions
          => user_sessions'[user_id] = user_sessions[user_id]

\* C29: a request served for one applicant, at any point of the other
\* applicants' workflows, leaves every other applicant's session as it was:
\* it is neither created, nor modified, nor deleted.
C29_ApplicantsIndependent ==
    [][\A a \in UserIds :
        ServedFor(WorkflowOps, a)
        => \A b \in UserIds \ {a} : SessionUntouched(b)]_vars

\* USR001's session was deleted by its final confirmation while USR002 is
\* in the middle of its workflow, its eligibility calculated
C29_Witness ==
    /\ request.op = "final_confirmation"
    /\ request.user_id = "USR001"
    /\ response.status = 200
    /\ "USR001" \notin DOMAIN user_sessions
    /\ "USR002" \in DOMAIN user_sessions
    /\ "eligibility" \in DOMAIN user_sessions["USR002"]

\* the step taken is a call of generate_response
Generates == Served /\ request'.op = "generate_response"

\* the texts generate_response can return: the API's text for the prompt or
\* one of the canned texts
ResponseStrings ==
    {generate_response(prompt) : prompt \in Prompts} \cup MockTexts

C31_HaltedCalculationZeroed ==
    [][\A u \in UserIds :
        (ServedFor({"calculate_eligibility"}, u) /\ Halted(u))
        => /\ response'.status = 200
           /\ response'.body =
                LoanEligibility(0, 0, 0, FALSE, llm_message(user_sessions[u]))
           /\ user_sessions' = user_sessions]_vars

\* an amount above the ceiling, requested on a halted session, was answered
\* with the zeroed result
C31_Witness ==
    /\ request.op = "calculate_eligibility"
    /\ request.loan_amount > max_loan_amount
    /\ Halted(request.user_id)
    /\ response.status = 200
    /\ response.body.type = "LoanEligibility"
    /\ response.body.requested_amount = 0
    /\ ~response.body.is_eligible
    /\ EligibilityFigures \cap DOMAIN user_sessions[request.user_id] = {}

\* the fields of the result of fetch_user_data that describe the applicant
\* and the screening are those of the record and of the screening stored
\* in the session
CarriesBasicData(body, session) ==
    /\ body.name = session.user_data.Name
    /\ body.monthly_income = session.user_data.MonthlyIncome
    /\ body.monthly_expenses = session.user_data.MonthlyExpenses
    /\ body.existing_loan = session.user_data.ExistingLoan
    /\ body.ofac_check = session.context.ofac_clear
    /\ body.ofac_status = session.context.ofac_status

\* C32: the result of a fetch_user_data that succeeds carries the applicant's
\* basic data and the screening status together with the message stored in
\* the session: the compliance-decline message when the session is halted,
\* the confirmation prompt on the passing branch.
C32_ResultCarriesMessage ==
    [][\A u \in UserIds :
        (ServedFor({"fetch_user_data"}, u) /\ response'.status = 200)
        => LET session == user_sessions'[u] IN
           /\ CarriesBasicData(response'.body, session)
           /\ "llm_message" \in DOMAIN response'.body
           /\ response'.body.llm_message = session.llm_message
           /\ session.llm_message =
                IF process_complete(session)
                THEN ComplianceDeclineMessage(session.user_data.Name)
                ELSE generate_response("confirm_loan_type")]_vars

\* the step name each operation of the canonical flow answers with, for the
\* operations that answer with an LLMResponse
NextStepName ==
    [greet_user |-> "select_loan_type",
     confirm_user_data |-> "enter_loan_amount",
     ask_loan_amount |-> "calculate_eligibility",
     final_confirmation |-> "complete"]

\* the call of the canonical flow made on this step finds what the calls
\* before it in the flow leave behind: a record in the sheet for greet_user
\* and fetch_user_data, a session that is not halted for the calls after
\* them, with the applicant's record in it for calculate_eligibility, whose
\* amount is valid; fetch_user_data is the one whose screening is clear
CanonicalCall(u) ==
    /\ ServedFor(WorkflowOps \ {"chat"}, u)
    /\ CASE request'.op \in {"greet_user", "fetch_user_data"} ->
                /\ u \in DOMAIN users_file
                /\ request'.op = "fetch_user_data"
                      => (response'.status = 200 => response'.body.ofac_check)
         [] request'.op \in {"confirm_user_data", "ask_loan_amount", "final_confirmation"} ->
                HasSession(u) /\ ~Halted(u)
         [] request'.op = "calculate_eligibility" ->
                /\ HasSession(u) /\ ~Halted(u)
                /\ "user_data" \in DOMAIN user_sessions[u]
                /\ ~InvalidAmount(request'.loan_amount)

\* every call of the canonical flow succeeds, and the flow ends with the
\* session deleted; greet_user and fetch_user_data leave a session that is
\* not halted
FlowSucceeds(u) ==
    /\ response'.status = 200
    /\ request'.op = "final_confirmation" => u \notin DOMAIN user_sessions'
    /\ request'.op # "final_confirmation"
          => u \in DOMAIN user_sessions' /\ ~process_complete(user_sessions'[u])

\* from the present state a final_confirmation for u succeeds, answers
\* "complete" and deletes the session
FinalConfirmationCompletes(u) ==
    LET outcome == final_confirmation(user_sessions, u, now) IN
    /\ outcome.response.status = 200
    /\ outcome.response.body.next_step = "complete"
    /\ u \notin DOMAIN outcome.sessions

Approves(u) ==
    /\ ServedFor({"final_confirmation"}, u)
    /\ response'.status = 200
    /\ response'.body.message = ApprovalMessage

\* u's session was written by a fetch_user_data whose screening was clear
\* and holds the verdict "eligible" of a calculation
ScreenedClearAndEligible(u) ==
    /\ HasSession(u)
    /\ ~Halted(u)
    /\ "user_data" \in DOMAIN user_sessions[u]
    /\ user_sessions[u].context.ofac_clear
    /\ "eligibility" \in DOMAIN user_sessions[u]
    /\ user_sessions[u].eligibility

\* a verdict in u's session after the step is the verdict answered by a
\* calculate_eligibility on this step, or the one the session held before
VerdictFromCalculation(u) ==
    (u \in DOMAIN user_sessions' /\ "eligibility" \in DOMAIN user_sessions'[u])
    => \/ /\ Calculated(u)
          /\ user_sessions'[u].eligibility = response'.body.is_eligible
       \/ /\ ~Calculated(u)
          /\ HasSession(u)
          /\ "eligibility" \in DOMAIN user_sessions[u]
          /\ user_sessions'[u].eligibility = user_sessions[u].eligibility

\* greet_user and fetch_user_data leave a session without a verdict, and
\* fetch_user_data records in the session the screening result it answers
ReplacementDropsVerdict(u) ==
    (ServedFor({"greet_user", "fetch_user_data"}, u) /\ response'.status = 200)
    => /\ "eligibility" \notin DOMAIN user_sessions'[u]
       /\ request'.op = "fetch_user_data"
             => /\ user_sessions'[u].context.ofac_clear = response'.body.ofac_check
                /\ process_complete(user_sessions'[u]) = ~response'.body.ofac_check

\* C34: final_confirmation answers the approval message only for a session
\* written by a fetch_user_data whose screening was clear and whose most
\* recent successful calculate_eligibility answered is_eligible = true;
\* never for a halted session, nor for a session on which no calculation
\* ran since the last greet_user or fetch_user_data.
C34_NoApprovalWithoutScreeningAndEligibility ==
    [][\A u \in UserIds :
        /\ Approves(u) => ScreenedClearAndEligible(u)
        /\ Served => VerdictFromCalculation(u)
        /\ ReplacementDropsVerdict(u)]_vars

\* an approval was answered, and the cache still holds the clear verdict of
\* the screening of the applicant's name
C34_Witness ==
    /\ request.op = "final_confirmation"
    /\ response.status = 200
    /\ response.body.message = ApprovalMessage
    /\ ~HasSession(request.user_id)
    /\ request.user_id \in DOMAIN users_file
    /\ LET key == _normalize_name(users_file[request.user_id].Name) IN
       /\ key \in DOMAIN check_cache
       /\ check_cache[key].result

\* C35: a calculate_eligibility that answers "insufficient disposable
\* income" does so only for a record whose disposable income (monthly
\* income less monthly expenses) is not positive; a not-eligible answer for
\* a record with positive disposable income is "amount exceeds limit".
C35_InsufficientOnlyWithoutDisposableIncome ==
    [][\A u \in UserIds :
        Calculated(u)
        => LET disposable == ExpectedDisposable(user_sessions[u].user_data)
               body == response'.body
           IN  /\ body.message = Text("insufficient_disposable_income")
                     => disposable <= 0
               /\ (~body.is_eligible /\ disposable > 0)
                     => body.message = Text("amount_exceeds_limit")]_vars

\* C36: a client-error answer of the remote API (a status that is not 200,
\* not 429 and below 500) is not retried: it is the last HTTP attempt of
\* its call of generate_response.
C36_ClientErrorNotRetried ==
    [][Generates
        => LET trace == response'.body.trace IN
           \A i \in 1..Len(trace) : trace[i] = "client_error" => i = Len(trace)]_vars

\* the step taken is the dispatch of a request of client_id
Dispatches(client_id) ==
    /\ now' = now
    /\ request'.op = "dispatch"
    /\ request'.client_id = client_id

\* no stretch of rate_limit_window seconds, both ends included, that starts
\* at an admitted request of client_id holds more than rate_limit_requests
\* admitted requests of client_id; a stretch that starts elsewhere holds no
\* more than the one that starts at the first request in it
WindowsWithinLimit(log, client_id) ==
    LET admitted == Get(log, client_id, <<>>) IN
    \A i \in 1..Len(admitted) :
        Cardinality({j \in 1..Len(admitted) :
                        /\ admitted[j] >= admitted[i]
                        /\ admitted[j] <= admitted[i] + rate_limit_window})
            <= rate_limit_requests

\* C37: a client's timestamp queue never holds more than rate_limit_requests
\* entries, and no window of rate_limit_window seconds holds more than
\* rate_limit_requests admitted requests of one client; a request rejected
\* with 429 adds no timestamp to the queue; a request to an exempt path
\* leaves the limiter as it was and is handed on.
C37_RateLimitWindow ==
    [][\A c \in Clients :
        /\ c \in DOMAIN rate_limiter'.requests
              => Len(rate_limiter'.requests[c]) <= rate_limit_requests
        /\ WindowsWithinLimit(history', c)
        /\ (Dispatches(c) /\ response'.status = 429)
              => /\ history' = history
                 /\ \A i \in 1..Len(rate_limiter'.requests[c]) :
                       \E j \in 1..Len(rate_limiter.requests[c]) :
                          rate_limiter'.requests[c][i] = rate_limiter.requests[c][j]
                 /\ Len(rate_limiter'.requests[c]) <= Len(rate_limiter.requests[c])
        /\ (Dispatches(c) /\ request'.path \in ExemptPaths)
              => /\ rate_limiter' = rate_limiter
                 /\ response' = call_next(request'.path)]_vars

\* a client that was admitted rate_limit_requests times, the first time a
\* whole window ago, is rejected
C37_Witness ==
    /\ request.op = "dispatch"
    /\ response.status = 429
    /\ LET client_requests == rate_limiter.requests[request.client_id] IN
       /\ Len(client_requests) = rate_limit_requests
       /\ Head(client_requests) = now - rate_limit_window

\* the entry of key k was stored or stamped anew on this step
EntryStamped(k) ==
    /\ k \in DOMAIN check_cache'
    /\ \/ k \notin DOMAIN check_cache
       \/ check_cache'[k].timestamp # check_cache[k].timestamp

\* C38: a screening served from the cache leaves the entry and its timestamp
\* as they were; a timestamp is set only by a screening whose check ran and
\* returned, and then it is the time of that check; a check that raised and a
\* blank name write nothing to the cache; so a verdict is served for
\* cache_ttl seconds from its check, however often it was served.
C38_HitKeepsTimestamp ==
    [][/\ \A n \in NonBlankNames :
            Screens(n)
            => /\ request'.draw = NoDraw => check_cache' = check_cache
               /\ (request'.draw # NoDraw /\ FreshCheckRaised(n))
                     => check_cache' = check_cache
               /\ \A k \in DOMAIN check_cache' :
                     EntryStamped(k)
                     => /\ k = KeyOf[n]
                        /\ request'.draw # NoDraw
                        /\ ~FreshCheckRaised(n)
                        /\ check_cache'[k].timestamp = now
               /\ (KeyOf[n] \in DOMAIN check_cache /\ request'.draw = NoDraw)
                     <=> (KeyOf[n] \in DOMAIN check_cache
                          /\ now - check_cache[KeyOf[n]].timestamp < cache_ttl)
       /\ \A n \in AllScreenedNames \ NonBlankNames :
            Screens(n) => check_cache' = check_cache]_vars

\* a not-clear verdict checked at time 0 is served one tick later, and its
\* timestamp is still 0
C38_Witness ==
    /\ request.op = "check_sanctions"
    /\ Strip(request.user_name) # <<>>
    /\ request.draw = NoDraw
    /\ now = TickSeconds
    /\ _normalize_name(request.user_name) \in DOMAIN check_cache
    /\ check_cache[_normalize_name(request.user_name)].timestamp = 0
    /\ ~response.body.result

\* the words of the messages of a history, message by message
RECURSIVE WordsOf(_)
WordsOf(messages) ==
    IF messages = <<>> THEN 0
    ELSE WordCount(Head(messages).content) + WordsOf(Tail(messages))

\* the last n of the messages, in their order
LastMessages(messages, n) ==
    SubSeq(messages, Len(messages) - n + 1, Len(messages))

\* C39: a conversation holds at most max_messages messages, they are the most
\* recently added ones in the order they were added, and token_count is the
\* sum of the word counts of the messages held.
C39_HistoryBoundedAndCounted ==
    \A u \in DOMAIN conversations :
        LET context == conversations[u]
            added == Get(history, u, <<>>)
        IN  /\ Len(context.messages) <= max_messages
            /\ context.messages =
                 LastMessages(added, IF Len(added) < max_messages THEN Len(added)
                                     ELSE max_messages)
            /\ context.token_count = WordsOf(context.messages)

\* more messages were added to a conversation than it holds, and the oldest
\* one, which had words, is gone
C39_Witness ==
    \E u \in DOMAIN conversations :
        /\ Len(history[u]) > max_messages
        /\ Len(conversations[u].messages) = max_messages
        /\ WordCount(history[u][1].content) > 0
        /\ conversations[u].token_count > 0

=============================================================================
